---- MODULE Spec2Model ----
(***************************************************************************)
(* DailySketch: the relational store behind the application (schema,      *)
(* foreign keys, uniqueness constraints, row-level-security policies and   *)
(* the registration trigger of supabase/migrations), the requests the      *)
(* clients issue against it, and the handlers of the application's Today,  *)
(* Create and Profile screens.                                             *)
(*                                                                         *)
(* Every table is a bag of rows (a function from row to number of copies). *)
(* uuid and text values are strings; SQL NULL is the value NULL.  The id   *)
(* column of likes, comments and follows is not modelled: no foreign key   *)
(* references it, and a bag keeps rows that agree on every other column    *)
(* apart.                                                                  *)
(***************************************************************************)
EXTENDS Bags, FiniteSets, Integers, Sequences, TLC

VARIABLES users, profiles, challenges, submissions, likes, comments, follows,
          pending, last, client

vars == <<users, profiles, challenges, submissions, likes, comments, follows,
          pending, last, client>>

NULL == "NULL"

(***************************************************************************)
(* Bounds of the model.                                                    *)
(***************************************************************************)
MaxLikes == 2
MaxComments == 1
MaxFollows == 1
MaxPending == 2
MaxInFlight == 2

Actors == {"u1", "u2"}
Emails == {"admin@x", "user@x"}
Usernames == {"", "alice"}
DisplayNames == {"Alice"}
Dates == {"d1", "d2"}
Descriptions == {NULL, "sketch"}
Contents == {"nice", "edited"}

\* current_setting('app.admin_emails'), as a sequence of tokens: an address
\* or the separator ",".
AdminEmailsSetting == <<"admin@x", ",", "root@x">>

Tables == {"users", "profiles", "challenges", "submissions", "likes",
           "comments", "follows"}

ClientTables == Tables \ {"users"}

(***************************************************************************)
(* Schema: CREATE TABLE statements.                                        *)
(***************************************************************************)
\* NOT NULL columns (PRIMARY KEY implies NOT NULL)
NotNullCols(tbl) ==
  CASE tbl = "users" -> {"id"}
    [] tbl = "profiles" -> {"id", "username"}
    [] tbl = "challenges" -> {"id", "start_date", "end_date"}
    [] tbl = "submissions" -> {"id", "user_id", "challenge_id"}
    [] tbl = "likes" -> {"user_id", "submission_id"}
    [] tbl = "comments" -> {"user_id", "submission_id", "content"}
    [] tbl = "follows" -> {"follower_id", "following_id"}

\* mutant: likes without UNIQUE(user_id, submission_id)
UniqueKeysLikesMissing(tbl) ==
  CASE tbl = "users" -> {{"id"}}
    [] tbl = "profiles" -> {{"id"}, {"username"}}
    [] tbl = "challenges" -> {{"id"}}
    [] tbl = "submissions" -> {{"id"}}
    [] tbl = "likes" -> {}
    [] tbl = "comments" -> {}
    [] tbl = "follows" -> {{"follower_id", "following_id"}}

\* mutant: profiles.id without PRIMARY KEY
UniqueKeysProfilePkMissing(tbl) ==
  CASE tbl = "users" -> {{"id"}}
    [] tbl = "profiles" -> {{"username"}}
    [] tbl = "challenges" -> {{"id"}}
    [] tbl = "submissions" -> {{"id"}}
    [] tbl = "likes" -> {{"user_id", "submission_id"}}
    [] tbl = "comments" -> {}
    [] tbl = "follows" -> {{"follower_id", "following_id"}}

\* PRIMARY KEY and UNIQUE constraints, each a set of columns
UniqueKeys(tbl) ==
  CASE tbl = "users" -> {{"id"}}
    [] tbl = "profiles" -> {{"id"}, {"username"}}
    [] tbl = "challenges" -> {{"id"}}
    [] tbl = "submissions" -> {{"id"}}
    [] tbl = "likes" -> {{"user_id", "submission_id"}}
    [] tbl = "comments" -> {}
    [] tbl = "follows" -> {{"follower_id", "following_id"}}

\* mutant: follows.following_id without its REFERENCES clause
ForeignKeysFollowingMissing ==
  { [tbl |-> "profiles", col |-> "id", ref |-> "users"],
    [tbl |-> "submissions", col |-> "user_id", ref |-> "profiles"],
    [tbl |-> "submissions", col |-> "challenge_id", ref |-> "challenges"],
    [tbl |-> "likes", col |-> "user_id", ref |-> "profiles"],
    [tbl |-> "likes", col |-> "submission_id", ref |-> "submissions"],
    [tbl |-> "comments", col |-> "user_id", ref |-> "profiles"],
    [tbl |-> "comments", col |-> "submission_id", ref |-> "submissions"],
    [tbl |-> "follows", col |-> "follower_id", ref |-> "profiles"] }

\* REFERENCES ... (id) ON DELETE CASCADE
ForeignKeys ==
  { [tbl |-> "profiles", col |-> "id", ref |-> "users"],
    [tbl |-> "submissions", col |-> "user_id", ref |-> "profiles"],
    [tbl |-> "submissions", col |-> "challenge_id", ref |-> "challenges"],
    [tbl |-> "likes", col |-> "user_id", ref |-> "profiles"],
    [tbl |-> "likes", col |-> "submission_id", ref |-> "submissions"],
    [tbl |-> "comments", col |-> "user_id", ref |-> "profiles"],
    [tbl |-> "comments", col |-> "submission_id", ref |-> "submissions"],
    [tbl |-> "follows", col |-> "follower_id", ref |-> "profiles"],
    [tbl |-> "follows", col |-> "following_id", ref |-> "profiles"] }

\* the tables whose id column a foreign key references
HasId(tbl) == tbl \in {"users", "profiles", "challenges", "submissions"}

\* the rows a table of the model holds at most
MaxRows(tbl) ==
  CASE tbl = "likes" -> MaxLikes
    [] tbl = "comments" -> MaxComments
    [] tbl = "follows" -> MaxFollows

Rows(b) == BagToSet(b)

RowIds(b) == {r.id : r \in Rows(b)}

\* gen_random_uuid(): an id of the universe that no row of the table has
gen_random_uuid(universe, b) == CHOOSE id \in universe : id \notin RowIds(b)

(***************************************************************************)
(* The database as one value.                                              *)
(***************************************************************************)
DB == [users |-> users, profiles |-> profiles, challenges |-> challenges,
       submissions |-> submissions, likes |-> likes, comments |-> comments,
       follows |-> follows]

SetDB(d) ==
  /\ users' = d.users
  /\ profiles' = d.profiles
  /\ challenges' = d.challenges
  /\ submissions' = d.submissions
  /\ likes' = d.likes
  /\ comments' = d.comments
  /\ follows' = d.follows

(***************************************************************************)
(* Row-level-security policies: CREATE POLICY / DROP POLICY statements.    *)
(* A policy expression is TrueExpr, UidEq(col) for auth.uid() = col, or    *)
(* AdminExpr for the administrator test; NoExpr is an absent clause.       *)
(***************************************************************************)
TrueExpr == [kind |-> "true", col |-> ""]

UidEq(c) == [kind |-> "uid_eq", col |-> c]

AdminExpr == [kind |-> "admin", col |-> ""]

NoExpr == [kind |-> "none", col |-> ""]

Policy(n, t, c, r, u, w) ==
  [name |-> n, tbl |-> t, cmd |-> c, roles |-> r, using |-> u, check |-> w]

\* mutant: a profile may be deleted by its actor
ProfilePoliciesOwnDelete ==
  { Policy("Public profiles are viewable by everyone", "profiles", "SELECT",
           "public", TrueExpr, NoExpr),
    Policy("Users can insert their own profile", "profiles", "INSERT",
           "public", NoExpr, UidEq("id")),
    Policy("Users can update own profile", "profiles", "UPDATE",
           "public", UidEq("id"), NoExpr),
    Policy("Users can delete own profile", "profiles", "DELETE",
           "public", UidEq("id"), NoExpr) }

\* 20250217145919_aged_shore.sql, by table
ProfilePolicies ==
  { Policy("Public profiles are viewable by everyone", "profiles", "SELECT",
           "public", TrueExpr, NoExpr),
    Policy("Users can insert their own profile", "profiles", "INSERT",
           "public", NoExpr, UidEq("id")),
    Policy("Users can update own profile", "profiles", "UPDATE",
           "public", UidEq("id"), NoExpr) }

ChallengePolicies ==
  { Policy("Challenges are viewable by everyone", "challenges", "SELECT",
           "public", TrueExpr, NoExpr),
    Policy("Only admins can manage challenges", "challenges", "ALL",
           "public", AdminExpr, NoExpr) }

SubmissionPolicies ==
  { Policy("Submissions are viewable by everyone", "submissions", "SELECT",
           "public", TrueExpr, NoExpr),
    Policy("Users can create their own submissions", "submissions", "INSERT",
           "public", NoExpr, UidEq("user_id")),
    Policy("Users can update own submissions", "submissions", "UPDATE",
           "public", UidEq("user_id"), NoExpr),
    Policy("Users can delete own submissions", "submissions", "DELETE",
           "public", UidEq("user_id"), NoExpr) }

\* mutant: the manage policy admits every caller
LikePoliciesManageAny ==
  { Policy("Likes are viewable by everyone", "likes", "SELECT",
           "public", TrueExpr, NoExpr),
    Policy("Users can manage their own likes", "likes", "ALL",
           "public", TrueExpr, NoExpr) }

LikePolicies ==
  { Policy("Likes are viewable by everyone", "likes", "SELECT",
           "public", TrueExpr, NoExpr),
    Policy("Users can manage their own likes", "likes", "ALL",
           "public", UidEq("user_id"), NoExpr) }

CommentSelectPolicy ==
  Policy("Comments are viewable by everyone", "comments", "SELECT",
         "public", TrueExpr, NoExpr)

CommentUpdatePolicy ==
  Policy("Users can update own comments", "comments", "UPDATE",
         "public", UidEq("user_id"), NoExpr)

CommentDeletePolicy ==
  Policy("Users can delete own comments", "comments", "DELETE",
         "public", UidEq("user_id"), NoExpr)

\* mutant: anyone may create a comment
CommentPoliciesOpenInsert ==
  { CommentSelectPolicy,
    Policy("Users can create comments", "comments", "INSERT",
           "public", NoExpr, TrueExpr),
    CommentUpdatePolicy, CommentDeletePolicy }

CommentPolicies ==
  { CommentSelectPolicy,
    Policy("Users can create comments", "comments", "INSERT",
           "public", NoExpr, UidEq("user_id")),
    CommentUpdatePolicy, CommentDeletePolicy }

\* mutant: a follow is managed by the actor it points at
FollowPoliciesByFollowing ==
  { Policy("Follows are viewable by everyone", "follows", "SELECT",
           "public", TrueExpr, NoExpr),
    Policy("Users can manage their own follows", "follows", "ALL",
           "public", UidEq("following_id"), NoExpr) }

FollowPolicies ==
  { Policy("Follows are viewable by everyone", "follows", "SELECT",
           "public", TrueExpr, NoExpr),
    Policy("Users can manage their own follows", "follows", "ALL",
           "public", UidEq("follower_id"), NoExpr) }

Migration1Policies ==
  ProfilePolicies \cup ChallengePolicies \cup SubmissionPolicies
    \cup LikePolicies \cup CommentPolicies \cup FollowPolicies

\* DROP POLICY IF EXISTS name ON table
\* mutant: DROP POLICY IF EXISTS removes nothing
DropPolicyKeeps(pols, n, t) == pols

DropPolicy(pols, n, t) == {p \in pols : ~(p.name = n /\ p.tbl = t)}

SubmissionSelectPolicy2 ==
  Policy("Submissions are viewable by everyone", "submissions", "SELECT",
         "public", TrueExpr, NoExpr)

\* mutant: an authenticated caller may create a submission for any user
SubmissionInsertPolicy2AnyAuthor ==
  Policy("Authenticated users can create submissions", "submissions",
         "INSERT", "authenticated", NoExpr, TrueExpr)

SubmissionInsertPolicy2 ==
  Policy("Authenticated users can create submissions", "submissions",
         "INSERT", "authenticated", NoExpr, UidEq("user_id"))

SubmissionUpdatePolicy2 ==
  Policy("Users can update own submissions", "submissions", "UPDATE",
         "public", UidEq("user_id"), NoExpr)

\* mutant: any caller may delete any submission
Migration2CreatedOpenDelete ==
  { SubmissionSelectPolicy2, SubmissionInsertPolicy2, SubmissionUpdatePolicy2,
    Policy("Users can delete own submissions", "submissions", "DELETE",
           "public", TrueExpr, NoExpr) }

\* 20250218152033_calm_math.sql: the policies it creates
Migration2Created ==
  { SubmissionSelectPolicy2, SubmissionInsertPolicy2, SubmissionUpdatePolicy2,
    Policy("Users can delete own submissions", "submissions", "DELETE",
           "public", UidEq("user_id"), NoExpr) }

\* 20250218152033_calm_math.sql, applied to the policies in force
Migration2(pols) ==
  LET d1 == DropPolicy(pols, "Submissions are viewable by everyone",
                       "submissions")
      d2 == DropPolicy(d1, "Users can create their own submissions",
                       "submissions")
      d3 == DropPolicy(d2, "Users can update own submissions", "submissions")
      d4 == DropPolicy(d3, "Users can delete own submissions", "submissions")
  IN d4 \cup Migration2Created

\* both migrations applied in order
Policies == Migration2(Migration1Policies)

(***************************************************************************)
(* The request context: auth.uid(), auth.role(), auth.email().             *)
(***************************************************************************)
Anon == [uid |-> NULL, role |-> "anon", email |-> NULL]

EmailOf(db, uid) ==
  IF \E u \in Rows(db.users) : u.id = uid
    THEN (CHOOSE u \in Rows(db.users) : u.id = uid).email
    ELSE NULL

Ctx(db, uid) ==
  IF uid = NULL THEN Anon
  ELSE [uid |-> uid, role |-> "authenticated", email |-> EmailOf(db, uid)]

\* string_to_array(text, delimiter): the pieces between the delimiters
RECURSIVE string_to_array(_, _)
string_to_array(s, delim) ==
  IF \A i \in 1..Len(s) : s[i] # delim THEN <<s>>
  ELSE LET k == CHOOSE i \in 1..Len(s) :
                  s[i] = delim /\ \A j \in 1..(i - 1) : s[j] # delim
       IN <<SubSeq(s, 1, k - 1)>> \o string_to_array(SubSeq(s, k + 1, Len(s)), delim)

\* x = ANY(array), for a text x held as one token; NULL = anything is not true
EqAny(x, arr) == x # NULL /\ \E i \in 1..Len(arr) : arr[i] = <<x>>

\* a = b in a policy: true only when neither side is NULL
SqlEq(a, b) == a # NULL /\ b # NULL /\ a = b

\* mutant: the allowlist is not consulted
IsAdminRoleOnly(ctx) == SqlEq(ctx.role, "authenticated")

\* auth.role() = 'authenticated' AND auth.email() = ANY(string_to_array(
\*   current_setting('app.admin_emails'), ','))
IsAdmin(ctx) ==
  /\ SqlEq(ctx.role, "authenticated")
  /\ EqAny(ctx.email, string_to_array(AdminEmailsSetting, ","))

\* whether a policy expression is true of a row
Eval(expr, ctx, row) ==
  CASE expr.kind = "true" -> TRUE
    [] expr.kind = "uid_eq" -> SqlEq(ctx.uid, row[expr.col])
    [] expr.kind = "admin" -> IsAdmin(ctx)
    [] OTHER -> FALSE

\* the permissive policies that apply to a command issued under a role
Applicable(pols, tbl, cmd, role) ==
  {p \in pols : /\ p.tbl = tbl
                /\ p.cmd \in {cmd, "ALL"}
                /\ p.roles \in {"public", role}}

\* USING: the rows a command may see or touch; no applicable policy denies
UsingOk(pols, ctx, tbl, cmd, row) ==
  \E p \in Applicable(pols, tbl, cmd, ctx.role) :
    p.using # NoExpr /\ Eval(p.using, ctx, row)

\* WITH CHECK on a new row; a policy without WITH CHECK uses its USING clause
CheckExpr(p) == IF p.check # NoExpr THEN p.check ELSE p.using

\* mutant: a policy without WITH CHECK leaves the new row unchecked
CheckOkExplicitOnly(pols, ctx, tbl, cmd, row) ==
  \E p \in Applicable(pols, tbl, cmd, ctx.role) :
    p.check = NoExpr \/ Eval(p.check, ctx, row)

CheckOk(pols, ctx, tbl, cmd, row) ==
  \E p \in Applicable(pols, tbl, cmd, ctx.role) : Eval(CheckExpr(p), ctx, row)

(***************************************************************************)
(* Constraints and referential actions, as the store enforces them within  *)
(* one statement.  Outcomes are SQLSTATE codes.                            *)
(***************************************************************************)
Ok == "ok"
InsufficientPrivilege == "42501"  \* new row violates row-level security policy
NotNullViolation == "23502"
UniqueViolation == "23505"
ForeignKeyViolation == "23503"

Reply(d, r, k) == [db |-> d, res |-> r, n |-> k]

One(row) == SetToBag({row})

NotNullOk(tbl, row) == \A c \in NotNullCols(tbl) : row[c] # NULL

\* mutant: uniqueness is not enforced when the row is written
UniqueOkUnchecked(tbl, b, row) == TRUE

\* no other row agrees with the new row on every column of a unique key
UniqueOk(tbl, b, row) ==
  \A key \in UniqueKeys(tbl) :
    ~ \E r \in Rows(b) : \A c \in key : r[c] = row[c]

\* every foreign key of the new row references an existing row
FkOk(db, tbl, row) ==
  \A f \in ForeignKeys :
    f.tbl = tbl => \E r \in Rows(db[f.ref]) : r.id = row[f.col]

\* rows of other tables that reference one of the ids through f
Referencing(db, f, ids) == {c \in Rows(db[f.tbl]) : c[f.col] \in ids}

RemoveRows(b, rows) == [r \in (DOMAIN b) \ rows |-> b[r]]

\* DELETE of rows with ON DELETE CASCADE followed through every foreign key
RECURSIVE DeleteCascade(_, _, _)
RECURSIVE CascadeThrough(_, _, _)
\* mutant: only the rows that reference the deleted rows directly are removed
CascadeThroughOneLevel(db, fks, ids) ==
  [t \in Tables |->
     RemoveRows(db[t], UNION {Referencing(db, f, ids) :
                                f \in {g \in fks : g.tbl = t}})]

DeleteCascade(db, tbl, rows) ==
  IF rows = {} THEN db
  ELSE CascadeThrough([db EXCEPT ![tbl] = RemoveRows(@, rows)],
                      {f \in ForeignKeys : f.ref = tbl},
                      IF HasId(tbl) THEN {r.id : r \in rows} ELSE {})

CascadeThrough(db, fks, ids) ==
  IF fks = {} THEN db
  ELSE LET f == CHOOSE g \in fks : TRUE
       IN CascadeThrough(DeleteCascade(db, f.tbl, Referencing(db, f, ids)),
                         fks \ {f}, ids)

\* the constraint checks of an INSERT, in the executor's order
InsertRow(db, tbl, row) ==
  IF ~NotNullOk(tbl, row) THEN Reply(db, NotNullViolation, 0)
  ELSE IF ~UniqueOk(tbl, db[tbl], row) THEN Reply(db, UniqueViolation, 0)
  ELSE IF ~FkOk(db, tbl, row) THEN Reply(db, ForeignKeyViolation, 0)
  ELSE Reply([db EXCEPT ![tbl] = @ (+) One(row)], Ok, 1)

(***************************************************************************)
(* The statements a client issues through the API, run under row-level     *)
(* security with the policies in force.                                    *)
(***************************************************************************)
\* SELECT: the rows of a table the caller may see
SelectStmt(db, pols, ctx, tbl) ==
  {r \in Rows(db[tbl]) : UsingOk(pols, ctx, tbl, "SELECT", r)}

\* INSERT: WITH CHECK on the new row, then the constraints; a failure raises
InsertStmt(db, pols, ctx, tbl, row) ==
  IF ~CheckOk(pols, ctx, tbl, "INSERT", row)
    THEN Reply(db, InsufficientPrivilege, 0)
    ELSE InsertRow(db, tbl, row)

ApplyPatch(row, patch) == [row EXCEPT ![patch.col] = patch.val]

\* UPDATE of one row: a row USING hides is skipped silently; the new row
\* must pass WITH CHECK and the constraints
UpdateStmt(db, pols, ctx, tbl, target, patch) ==
  LET new == ApplyPatch(target, patch)
      rest == db[tbl] (-) One(target)
      idRefs == IF HasId(tbl) /\ new.id # target.id
                  THEN UNION {Referencing(db, f, {target.id}) :
                                f \in {g \in ForeignKeys : g.ref = tbl}}
                  ELSE {}
  IN IF ~BagIn(target, db[tbl]) THEN Reply(db, Ok, 0)
     ELSE IF ~UsingOk(pols, ctx, tbl, "UPDATE", target) THEN Reply(db, Ok, 0)
     ELSE IF ~CheckOk(pols, ctx, tbl, "UPDATE", new)
       THEN Reply(db, InsufficientPrivilege, 0)
     ELSE IF ~NotNullOk(tbl, new) THEN Reply(db, NotNullViolation, 0)
     ELSE IF ~UniqueOk(tbl, rest, new) THEN Reply(db, UniqueViolation, 0)
     ELSE IF ~FkOk(db, tbl, new) \/ idRefs # {}
       THEN Reply(db, ForeignKeyViolation, 0)
     ELSE Reply([db EXCEPT ![tbl] = rest (+) One(new)], Ok, 1)

\* mutant: a DELETE of a row USING hides is refused with an error
DeleteStmtRefusing(db, pols, ctx, tbl, target) ==
  IF ~BagIn(target, db[tbl]) THEN Reply(db, Ok, 0)
  ELSE IF ~UsingOk(pols, ctx, tbl, "DELETE", target)
    THEN Reply(db, InsufficientPrivilege, 0)
  ELSE IF HasId(tbl) THEN Reply(DeleteCascade(db, tbl, {target}), Ok, 1)
  ELSE Reply([db EXCEPT ![tbl] = @ (-) One(target)], Ok, 1)

\* DELETE of one row: a row USING hides is skipped silently
DeleteStmt(db, pols, ctx, tbl, target) ==
  IF ~BagIn(target, db[tbl]) THEN Reply(db, Ok, 0)
  ELSE IF ~UsingOk(pols, ctx, tbl, "DELETE", target) THEN Reply(db, Ok, 0)
  ELSE IF HasId(tbl) THEN Reply(DeleteCascade(db, tbl, {target}), Ok, 1)
  ELSE Reply([db EXCEPT ![tbl] = @ (-) One(target)], Ok, 1)

(***************************************************************************)
(* Registration: auth.users and the trigger on_auth_user_created.          *)
(***************************************************************************)
\* json ->> key: NULL when the key is absent
JsonGet(j, k) == IF k \in DOMAIN j THEN j[k] ELSE NULL

\* mutant: the two metadata keys are read into each other's column
handle_new_user_swapped(db, new_row) ==
  InsertRow(db, "profiles",
            [id |-> new_row.id,
             username |-> JsonGet(new_row.raw_user_meta_data, "display_name"),
             display_name |-> JsonGet(new_row.raw_user_meta_data, "username")])

\* handle_new_user(): SECURITY DEFINER, so no policy applies to its INSERT
handle_new_user(db, new_row) ==
  InsertRow(db, "profiles",
            [id |-> new_row.id,
             username |-> JsonGet(new_row.raw_user_meta_data, "username"),
             display_name |-> JsonGet(new_row.raw_user_meta_data, "display_name")])

\* mutant: a failure of the trigger leaves the new auth.users row in place
on_auth_user_created_no_abort(db, new_row) ==
  LET inserted == [db EXCEPT !.users = @ (+) One(new_row)]
      t == handle_new_user(inserted, new_row)
  IN IF t.res = Ok THEN Reply(t.db, Ok, 1) ELSE Reply(inserted, t.res, 0)

\* INSERT INTO auth.users ... with the AFTER INSERT trigger FOR EACH ROW:
\* an error raised in the trigger aborts the insert
on_auth_user_created(db, new_row) ==
  LET inserted == [db EXCEPT !.users = @ (+) One(new_row)]
      t == handle_new_user(inserted, new_row)
  IN IF t.res = Ok THEN Reply(t.db, Ok, 1) ELSE Reply(db, t.res, 0)

\* supabase.auth.signUp({email, password, options: {data}})
signUp(db, id, email, data) ==
  on_auth_user_created(db, [id |-> id, email |-> email,
                            raw_user_meta_data |-> data])

\* deletion of an actor: DELETE FROM auth.users
DeleteUser(db, id) ==
  DeleteCascade(db, "users", {u \in Rows(db.users) : u.id = id})

(***************************************************************************)
(* Requests.  last is the outcome the caller of the latest request saw;    *)
(* pending holds the requests in flight.                                   *)
(***************************************************************************)
\* the column a table's policies compare with auth.uid()
OwnerCol(tbl) ==
  CASE tbl = "profiles" -> "id"
    [] tbl = "follows" -> "follower_id"
    [] tbl = "challenges" -> "id"
    [] OTHER -> "user_id"

Owns(uid, tbl, row) == uid # NULL /\ row[OwnerCol(tbl)] = uid

\* the tables that hold fewer rows in d2 than in d1
Lost(d1, d2) ==
  {t \in Tables : BagCardinality(d2[t]) < BagCardinality(d1[t])}

Outcome(op, tbl, uid, row, out) ==
  [op |-> op, tbl |-> tbl, uid |-> uid, own |-> Owns(uid, tbl, row),
   res |-> out.res, n |-> out.n, gone |-> Lost(DB, out.db)]

\* the requests a specification lets its callers issue: "any" request;
\* "own", only requests of registered actors on rows they own; "anon", only
\* anonymous requests; "own+anon", both
InScope(V, uid, tbl, row) ==
  \/ V.callers = "any"
  \/ uid = NULL /\ V.callers \in {"anon", "own+anon"}
  \/ /\ uid # NULL /\ V.callers \in {"own", "own+anon"}
     /\ (tbl = "challenges" \/ Owns(uid, tbl, row))

\* the identities a request can carry: a registered actor, or none
Callers == RowIds(users) \cup {NULL}

MetaData(unames, dnames) ==
  [username : unames, display_name : dnames]
    \cup [username : unames] \cup [display_name : dnames]

\* V holds the values a specification draws its requests from, and the ids
\* its challenges and submissions take
Universe(tbl, V) ==
  IF tbl = "challenges" THEN V.challenge_ids ELSE V.submission_ids

\* room for one more row
HasRoom(tbl, V) ==
  CASE tbl = "profiles" -> TRUE
    [] tbl \in {"challenges", "submissions"} ->
         Universe(tbl, V) \ RowIds(DB[tbl]) # {}
    [] OTHER -> BagCardinality(DB[tbl]) < MaxRows(tbl)

\* the rows a client can offer to INSERT
Candidates(tbl, V) ==
  CASE tbl = "profiles" ->
         [id : Actors, username : V.usernames, display_name : V.display_names]
    [] tbl = "challenges" ->
         [id : {gen_random_uuid(V.challenge_ids, challenges)},
          start_date : V.dates,
          end_date : V.dates]
    [] tbl = "submissions" ->
         [id : {gen_random_uuid(V.submission_ids, submissions)},
          user_id : Actors, challenge_id : V.challenge_ids,
          description : V.descriptions,
          created_at : {client.now}]
    [] tbl = "likes" ->
         [user_id : Actors, submission_id : V.submission_ids]
    [] tbl = "comments" ->
         [user_id : Actors, submission_id : V.submission_ids,
          content : V.contents]
    [] tbl = "follows" -> [follower_id : Actors, following_id : Actors]

\* the single-column changes a client can ask of an UPDATE
Patches(tbl, V) ==
  CASE tbl = "profiles" ->
         [col : {"id"}, val : Actors]
           \cup [col : {"username"}, val : V.usernames]
           \cup [col : {"display_name"}, val : V.display_names]
    [] tbl = "challenges" -> [col : {"end_date"}, val : V.dates]
    [] tbl = "submissions" ->
         [col : {"user_id"}, val : Actors]
           \cup [col : {"description"}, val : V.descriptions]
    [] tbl = "likes" ->
         [col : {"user_id"}, val : Actors]
           \cup [col : {"submission_id"}, val : V.submission_ids]
    [] tbl = "comments" ->
         [col : {"user_id"}, val : Actors]
           \cup [col : {"content"}, val : V.contents]
    [] tbl = "follows" -> [col : {"follower_id", "following_id"}, val : Actors]

Wide ==
  [callers |-> "any", emails |-> Emails,
   metas |-> MetaData(Usernames, DisplayNames),
   usernames |-> Usernames \cup {NULL},
   display_names |-> DisplayNames \cup {NULL},
   dates |-> Dates, descriptions |-> Descriptions, contents |-> Contents,
   challenge_ids |-> {"c1"}, submission_ids |-> {"s1"},
   replies |-> {Ok}, images |-> {"img"}]

Narrow ==
  [callers |-> "own", emails |-> {"admin@x"},
   metas |-> [username : Usernames, display_name : DisplayNames],
   usernames |-> Usernames, display_names |-> DisplayNames,
   dates |-> {"d1"}, descriptions |-> {NULL}, contents |-> {"nice"},
   challenge_ids |-> {"c1"}, submission_ids |-> {"s1"},
   replies |-> {Ok}, images |-> {"img"}]

(***************************************************************************)
(* The application: the state its screens hold.  Time is counted in hours  *)
(* since 00:00 UTC of the day Calendar[1]; tz is the offset of the         *)
(* device's zone from UTC in hours.                                        *)
(***************************************************************************)
Calendar == <<"d0", "d1", "d2", "d3">>

\* JavaScript's null, where a row or a number may stand instead
JsonNull == [type |-> "null"]

\* useState of the Today, Create and Profile screens, and the session the
\* supabase client keeps
Device(now, tz) ==
  [now |-> now, tz |-> tz, session |-> NULL, inflight |-> {},
   challenge |-> JsonNull, submissions |-> <<>>, loading |-> TRUE,
   refreshing |-> FALSE, error |-> NULL,
   exploreChallenges |-> <<>>, selectedChallenge |-> JsonNull,
   exploreSubmissions |-> <<>>, exploreLoading |-> TRUE,
   exploreRefreshing |-> FALSE, exploreError |-> NULL,
   createError |-> NULL, createLoading |-> FALSE, route |-> "/create",
   profile |-> JsonNull, mySubmissions |-> <<>>, stats |-> JsonNull,
   profileError |-> NULL]

InitStore ==
  /\ users = EmptyBag
  /\ profiles = EmptyBag
  /\ challenges = EmptyBag
  /\ submissions = EmptyBag
  /\ likes = EmptyBag
  /\ comments = EmptyBag
  /\ follows = EmptyBag
  /\ pending = <<>>
  /\ last = [op |-> "none", tbl |-> "none", uid |-> NULL, own |-> FALSE,
             res |-> Ok, n |-> 0, gone |-> {}]

\* the empty store, and a device at noon UTC of Calendar[2] in the UTC zone
Init == InitStore /\ client = Device(36, 0)

\* handleSignUp: a new actor registers
Register(V) ==
  \E id \in Actors \ RowIds(users), email \in V.emails, data \in V.metas :
    \E out \in {signUp(DB, id, email, data)} :
       /\ SetDB(out.db)
       /\ last' = [op |-> "signUp", tbl |-> "users", uid |-> id,
                   own |-> FALSE, res |-> out.res, n |-> out.n, gone |-> {}]
       /\ UNCHANGED <<pending, client>>

\* an actor is deleted
RemoveActor ==
  \E id \in RowIds(users) :
    \E d \in {DeleteUser(DB, id)} :
       /\ SetDB(d)
       /\ last' = [op |-> "deleteUser", tbl |-> "users", uid |-> id,
                   own |-> FALSE, res |-> Ok, n |-> 1, gone |-> Lost(DB, d)]
       /\ UNCHANGED <<pending, client>>

ClientInsert(tbls, V) ==
  \E uid \in Callers, tbl \in tbls :
    /\ HasRoom(tbl, V)
    /\ \E row \in {r \in Candidates(tbl, V) : InScope(V, uid, tbl, r)} :
         \E out \in {InsertStmt(DB, Policies, Ctx(DB, uid), tbl, row)} :
            /\ SetDB(out.db)
            /\ last' = Outcome("INSERT", tbl, uid, row, out)
            /\ UNCHANGED <<pending, client>>

ClientUpdate(tbls, V) ==
  \E uid \in Callers, tbl \in tbls :
    \E target \in {r \in Rows(DB[tbl]) : InScope(V, uid, tbl, r)},
       patch \in Patches(tbl, V) :
      \E out \in {UpdateStmt(DB, Policies, Ctx(DB, uid), tbl, target, patch)} :
         /\ SetDB(out.db)
         /\ last' = Outcome("UPDATE", tbl, uid, target, out)
         /\ UNCHANGED <<pending, client>>

ClientDelete(tbls, V) ==
  \E uid \in Callers, tbl \in tbls :
    \E target \in {r \in Rows(DB[tbl]) : InScope(V, uid, tbl, r)} :
      \E out \in {DeleteStmt(DB, Policies, Ctx(DB, uid), tbl, target)} :
         /\ SetDB(out.db)
         /\ last' = Outcome("DELETE", tbl, uid, target, out)
         /\ UNCHANGED <<pending, client>>

\* a client sends an INSERT that the store has not run yet
Issue(tbls, V) ==
  /\ Len(pending) < MaxPending
  /\ \E uid \in Callers, tbl \in tbls :
       \E row \in {r \in Candidates(tbl, V) : InScope(V, uid, tbl, r)} :
         pending' = Append(pending,
           [uid |-> uid, tbl |-> tbl, row |-> row, st |-> "sent",
            overlap |-> \E i \in DOMAIN pending : pending[i].st = "sent"])
  /\ UNCHANGED <<users, profiles, challenges, submissions, likes, comments,
                 follows, last, client>>

\* the store runs one of the statements in flight, as one atomic statement
Execute(V) ==
  \E i \in DOMAIN pending :
    /\ pending[i].st = "sent"
    /\ HasRoom(pending[i].tbl, V)
    /\ \E out \in {InsertStmt(DB, Policies, Ctx(DB, pending[i].uid),
                              pending[i].tbl, pending[i].row)} :
         /\ SetDB(out.db)
         /\ pending' = [pending EXCEPT ![i].st = out.res]
         /\ last' = Outcome("INSERT", pending[i].tbl, pending[i].uid,
                            pending[i].row, out)
         /\ UNCHANGED client

(***************************************************************************)
(* The application's requests.  A reply is Ok or a failure of the request  *)
(* itself (NetworkError); values that reach JavaScript as numbers, null or *)
(* arrays carry their type.                                                *)
(***************************************************************************)
NetworkError == "fetch failed"

store == <<users, profiles, challenges, submissions, likes, comments, follows>>

JsonNumber(n) == [type |-> "number", value |-> n]

\* an array of rows; no ORDER BY fixes the order of an embedded resource
JsonArray(items) == [type |-> "array", items |-> items]

Range(seq) == {seq[i] : i \in DOMAIN seq}

\* the ways to put the rows in one sequence
Arrangements(rows) ==
  {f \in [1..Cardinality(rows) -> rows] :
     \A i, j \in DOMAIN f : i # j => f[i] # f[j]}

\* the value ORDER BY compares: a timestamp as it is, a date by its place in
\* the calendar, as ISO dates compare
SortKey(row, column) ==
  IF column = "start_date"
    THEN CHOOSE i \in DOMAIN Calendar : Calendar[i] = row.start_date
    ELSE row[column]

\* mutant: the rows come in ascending order
OrderAscending(rows, column) ==
  {f \in Arrangements(rows) :
     \A i \in 1..(Len(f) - 1) :
       SortKey(f[i], column) <= SortKey(f[i + 1], column)}

\* .order(column, { ascending: false }): the rows by descending key; rows
\* with equal keys come in any order
OrderDescending(rows, column) ==
  {f \in Arrangements(rows) :
     \A i \in 1..(Len(f) - 1) :
       SortKey(f[i], column) >= SortKey(f[i + 1], column)}

\* the truth value JavaScript gives a value
Truthy(v) ==
  CASE v.type = "null" -> FALSE
    [] v.type = "number" -> v.value # 0
    [] OTHER -> TRUE

\* v || 0
OrZero(v) == IF Truthy(v) THEN v.value ELSE 0

\* new Date().toISOString(): date, "T", time of day, "Z", all in UTC
toISOString(now) ==
  <<Calendar[(now \div 24) + 1], "T", ToString(now % 24), "Z">>

\* new Date().toISOString().split('T')[0]
TodayOf(now) == string_to_array(toISOString(now), "T")[1]

\* supabase.auth.getUser(): the session's user while it exists
getUser(db, session) ==
  IF session = NULL THEN [user |-> NULL, error |-> NULL]
  ELSE IF session \in RowIds(db.users) THEN [user |-> session, error |-> NULL]
  ELSE [user |-> NULL, error |-> "User not found"]

\* mutant: the lookup does not filter on start_date
ChallengesStartingOnAny(db, ctx, today) ==
  SelectStmt(db, Policies, ctx, "challenges")

\* from('challenges').select().eq('start_date', today)
ChallengesStartingOn(db, ctx, today) ==
  {c \in SelectStmt(db, Policies, ctx, "challenges") : <<c.start_date>> = today}

\* .limit(1) without an order: any one of the rows, or none
Limit1(rows) == IF rows = {} THEN {<<>>} ELSE {<<r>> : r \in rows}

\* select('*', { count: 'exact', head: true }).eq(col, val)
Count(db, ctx, tbl, col, val) ==
  LET rows == {r \in SelectStmt(db, Policies, ctx, tbl) : r[col] = val}
  IN BagCardinality([r \in rows |-> db[tbl][r]])

\* the count a count query hands back: null when the query failed
CountReply(db, ctx, tbl, col, val, reply) ==
  IF reply = Ok THEN JsonNumber(Count(db, ctx, tbl, col, val)) ELSE JsonNull

\* profiles ( id, username, display_name, avatar_url ): the row's author
ProfileOf(db, ctx, s) ==
  LET ps == {q \in SelectStmt(db, Policies, ctx, "profiles") : q.id = s.user_id}
  IN IF ps = {} THEN JsonNull ELSE CHOOSE q \in ps : TRUE

LikesOn(db, ctx, s) ==
  {l \in SelectStmt(db, Policies, ctx, "likes") : l.submission_id = s.id}

\* likes(count), comments(count): one row holding the aggregate
EmbedCount(db, ctx, tbl, s) ==
  JsonArray({[count |-> Count(db, ctx, tbl, "submission_id", s.id)]})

\* likes.id is not kept in the store; a like is known by its unique pair
LikeId(l) == <<l.user_id, l.submission_id>>

\* mutant: likes are joined as an optional resource
InnerJoinedOptional(db, ctx, s) == TRUE

\* likes!inner: the submission is kept only if the embedded resource has rows
InnerJoined(db, ctx, s) == LikesOn(db, ctx, s) # {}

\* one row of the Today screen's submissions query
TodaySubmission(db, ctx, s) ==
  [id |-> s.id, user_id |-> s.user_id, challenge_id |-> s.challenge_id,
   description |-> s.description, created_at |-> s.created_at,
   profiles |-> ProfileOf(db, ctx, s),
   like_count |-> EmbedCount(db, ctx, "likes", s),
   comment_count |-> EmbedCount(db, ctx, "comments", s),
   has_liked |-> JsonArray({[id |-> LikeId(l)] : l \in LikesOn(db, ctx, s)})]

\* from('submissions').select(...).eq('challenge_id', challenge.id)
\*   .order('created_at', { ascending: false })
TodaySubmissionsQuery(db, ctx, cid) ==
  OrderDescending(
    {TodaySubmission(db, ctx, s) :
       s \in {t \in SelectStmt(db, Policies, ctx, "submissions") :
                t.challenge_id = cid /\ InnerJoined(db, ctx, t)}},
    "created_at")

ClientDone(op, tbl, res, n) ==
  [op |-> op, tbl |-> tbl, uid |-> client.session, own |-> FALSE,
   res |-> res, n |-> n, gone |-> {}]

\* a request of a screen that has been sent and not yet answered: the
\* challenge it asks submissions for, the date it looks a challenge up by,
\* whether a challenge was selected when it was sent, and whether onRefresh
\* sent it
Fetch(screen, req, cid, today, sel, refresh) ==
  [screen |-> screen, req |-> req, cid |-> cid, today |-> today, sel |-> sel,
   refresh |-> refresh]

InFlight(c, screen, req) ==
  {r \in c.inflight : r.screen = screen /\ r.req = req}

\* whether the requests of a screen's onRefresh are still awaited
Refreshing(reqs, screen) == \E r \in reqs : r.screen = screen /\ r.refresh

\* a day passes
Tick(V) ==
  /\ ((client.now + 24) \div 24) + 1 <= Len(Calendar)
  /\ Calendar[((client.now + 24) \div 24) + 1] \in V.dates
  /\ client' = [client EXCEPT !.now = @ + 24]
  /\ UNCHANGED <<store, pending, last>>

\* Today screen, useEffect on [challenge]: fetchSubmissions up to its await
TodayChallengeEffect(c) ==
  IF c.challenge = JsonNull THEN c
  ELSE [c EXCEPT !.error = NULL,
                 !.inflight = @ \cup {Fetch("today", "submissions",
                                            c.challenge.id, <<>>, FALSE, FALSE)}]

\* Today screen: fetchTodayChallenge from its await on; setChallenge hands
\* the effect a new object each time
TodayChallengeReply(c, reply, data) ==
  IF reply # Ok THEN [c EXCEPT !.error = "Failed to load today's challenge"]
  ELSE IF Len(data) = 0 THEN [c EXCEPT !.challenge = JsonNull]
  ELSE TodayChallengeEffect([c EXCEPT !.challenge = data[1]])

\* Today screen: the load on mount, setLoading(true); await
\* fetchTodayChallenge(); setLoading(false).  The screen shows only the
\* spinner meanwhile, so the request and its answer are one step.
fetchTodayChallenge(V) ==
  /\ client.loading
  /\ \E reply \in V.replies :
       LET today == TodayOf(client.now)
           rows == ChallengesStartingOn(DB, Ctx(DB, client.session), today)
       IN \E data \in (IF reply = Ok THEN Limit1(rows) ELSE {<<>>}) :
            /\ client' =
                 [TodayChallengeReply([client EXCEPT !.error = NULL], reply,
                                      data)
                    EXCEPT !.loading = FALSE]
            /\ last' = ClientDone("fetchTodayChallenge", "challenges", reply,
                                  Len(data))
                          @@ [today |-> today]
            /\ UNCHANGED <<store, pending>>

\* Today screen: onRefresh up to its await; fetchSubmissions reads the
\* challenge of the render that created it
TodayOnRefresh(V) ==
  /\ ~client.loading
  /\ ~client.refreshing
  /\ Cardinality(client.inflight) + 2 <= MaxInFlight
  /\ client' =
       [client EXCEPT
          !.refreshing = TRUE,
          !.error = NULL,
          !.inflight =
             @ \cup {Fetch("today", "challenge", NULL, TodayOf(client.now),
                           FALSE, TRUE)}
               \cup (IF client.challenge = JsonNull THEN {}
                     ELSE {Fetch("today", "submissions", client.challenge.id,
                                 <<>>, FALSE, TRUE)})]
  /\ last' = ClientDone("onRefresh", "challenges", Ok, 0)
  /\ UNCHANGED <<store, pending>>

\* Today screen: the lookup of onRefresh is answered
TodayChallengeDone(V) ==
  \E req \in InFlight(client, "today", "challenge"), reply \in V.replies :
    LET rows == ChallengesStartingOn(DB, Ctx(DB, client.session), req.today)
    IN \E data \in (IF reply = Ok THEN Limit1(rows) ELSE {<<>>}) :
         LET c == TodayChallengeReply(client, reply, data)
             rest == c.inflight \ {req}
         IN /\ client' = [c EXCEPT !.inflight = rest,
                                   !.refreshing = Refreshing(rest, "today")]
            /\ last' = ClientDone("fetchTodayChallenge", "challenges", reply,
                                  Len(data))
                          @@ [today |-> req.today]
            /\ UNCHANGED <<store, pending>>

\* Today screen: fetchSubmissions from its await on
TodayFetchSubmissions(V) ==
  \E req \in InFlight(client, "today", "submissions"), reply \in V.replies :
    \E data \in TodaySubmissionsQuery(DB, Ctx(DB, client.session), req.cid) :
      LET rest == client.inflight \ {req}
      IN /\ client' =
              [(IF reply # Ok
                  THEN [client EXCEPT !.error = "Failed to load submissions"]
                  ELSE [client EXCEPT !.submissions = data])
                 EXCEPT !.inflight = rest,
                        !.refreshing = Refreshing(rest, "today")]
         /\ last' = ClientDone("fetchSubmissions", "submissions", reply,
                               IF reply = Ok THEN Len(data) ELSE 0)
         /\ UNCHANGED <<store, pending>>

ExploreLimit == 10

Min(a, b) == IF a <= b THEN a ELSE b

\* from('challenges').select('*').order('start_date', { ascending: false })
\*   .limit(10)
ExploreChallengesQuery(db, ctx) ==
  {SubSeq(f, 1, Min(Len(f), ExploreLimit)) :
     f \in OrderDescending(SelectStmt(db, Policies, ctx, "challenges"),
                           "start_date")}

\* from('submissions').select(`*, profiles (...)`).eq('challenge_id',
\*   challengeId).order('created_at', { ascending: false })
ExploreSubmissionsQuery(db, ctx, cid) ==
  OrderDescending(
    {[id |-> s.id, user_id |-> s.user_id, challenge_id |-> s.challenge_id,
      description |-> s.description, created_at |-> s.created_at,
      profiles |-> ProfileOf(db, ctx, s)] :
       s \in {t \in SelectStmt(db, Policies, ctx, "submissions") :
                t.challenge_id = cid}},
    "created_at")

\* Explore screen: setSelectedChallenge, and the useEffect on
\* [selectedChallenge] that follows a change: fetchSubmissions up to its await
setSelectedChallenge(c, ch) ==
  IF ch = c.selectedChallenge THEN c
  ELSE [c EXCEPT !.selectedChallenge = ch,
                 !.inflight = @ \cup {Fetch("explore", "submissions", ch.id,
                                            <<>>, FALSE, FALSE)}]

\* mutant: fetchChallenges clears the error before it asks
ExploreChallengesReplyClearing(c, reply, data, sel) ==
  IF reply # Ok THEN [c EXCEPT !.exploreError = "Failed to load challenges"]
  ELSE LET shown == [c EXCEPT !.exploreChallenges = data,
                              !.exploreError = NULL]
       IN IF Len(data) > 0 /\ ~sel THEN setSelectedChallenge(shown, data[1])
          ELSE shown

\* Explore screen: fetchChallenges from its await on; sel tells whether a
\* challenge was selected in the render that created the function
ExploreChallengesReply(c, reply, data, sel) ==
  IF reply # Ok THEN [c EXCEPT !.exploreError = "Failed to load challenges"]
  ELSE LET shown == [c EXCEPT !.exploreChallenges = data]
       IN IF Len(data) > 0 /\ ~sel THEN setSelectedChallenge(shown, data[1])
          ELSE shown

\* Explore screen: loadInitialData on mount, setLoading(true); await
\* fetchChallenges(); setLoading(false).  The screen shows only the spinner
\* meanwhile, so the request and its answer are one step.
ExploreLoadInitialData(V) ==
  /\ client.exploreLoading
  /\ \E reply \in V.replies :
       \E data \in (IF reply = Ok
                      THEN ExploreChallengesQuery(DB, Ctx(DB, client.session))
                      ELSE {<<>>}) :
         /\ client' = [ExploreChallengesReply(client, reply, data, FALSE)
                         EXCEPT !.exploreLoading = FALSE]
         /\ last' = ClientDone("fetchChallenges", "challenges", reply,
                               Len(data))
         /\ UNCHANGED <<store, pending>>

\* Explore screen: a press on a challenge card
ExploreOnPress(V) ==
  /\ ~client.exploreLoading
  /\ Cardinality(client.inflight) < MaxInFlight
  /\ \E i \in DOMAIN client.exploreChallenges :
       /\ client.exploreChallenges[i] # client.selectedChallenge
       /\ client' = setSelectedChallenge(client, client.exploreChallenges[i])
       /\ last' = ClientDone("onPress", "challenges", Ok, 0)
       /\ UNCHANGED <<store, pending>>

\* Explore screen: onRefresh up to its await, from the pull or from Retry
ExploreOnRefresh(V) ==
  /\ ~client.exploreLoading
  /\ ~client.exploreRefreshing
  /\ Cardinality(client.inflight) + 2 <= MaxInFlight
  /\ client' =
       [client EXCEPT
          !.exploreRefreshing = TRUE,
          !.inflight =
             @ \cup {Fetch("explore", "challenges", NULL, <<>>,
                           client.selectedChallenge # JsonNull, TRUE)}
               \cup (IF client.selectedChallenge = JsonNull THEN {}
                     ELSE {Fetch("explore", "submissions",
                                 client.selectedChallenge.id, <<>>, FALSE,
                                 TRUE)})]
  /\ last' = ClientDone("onRefresh", "challenges", Ok, 0)
  /\ UNCHANGED <<store, pending>>

\* Explore screen: the fetchChallenges of onRefresh is answered
ExploreFetchChallenges(V) ==
  \E req \in InFlight(client, "explore", "challenges"), reply \in V.replies :
    \E data \in (IF reply = Ok
                   THEN ExploreChallengesQuery(DB, Ctx(DB, client.session))
                   ELSE {<<>>}) :
      LET c == ExploreChallengesReply(client, reply, data, req.sel)
          rest == c.inflight \ {req}
      IN /\ client' = [c EXCEPT !.inflight = rest,
                                !.exploreRefreshing = Refreshing(rest, "explore")]
         /\ last' = ClientDone("fetchChallenges", "challenges", reply,
                               Len(data))
         /\ UNCHANGED <<store, pending>>

\* Explore screen: fetchSubmissions from its await on
ExploreFetchSubmissions(V) ==
  \E req \in InFlight(client, "explore", "submissions"), reply \in V.replies :
    \E data \in ExploreSubmissionsQuery(DB, Ctx(DB, client.session), req.cid) :
      LET rest == client.inflight \ {req}
      IN /\ client' =
              [(IF reply # Ok
                  THEN [client EXCEPT
                          !.exploreError = "Failed to load submissions"]
                  ELSE [client EXCEPT !.exploreSubmissions = data])
                 EXCEPT !.inflight = rest,
                        !.exploreRefreshing = Refreshing(rest, "explore")]
         /\ last' = ClientDone("fetchSubmissions", "submissions", reply,
                               IF reply = Ok THEN Len(data) ELSE 0)
                       @@ [cid |-> req.cid]
         /\ UNCHANGED <<store, pending>>

\* Create screen: handleSubmit, as the store and the screen it leaves
SubmitResult(d, err, loading, route, res, n) ==
  [db |-> d, createError |-> err, createLoading |-> loading, route |-> route,
   res |-> res, n |-> n]

\* mutant: setLoading(false) follows the insert instead of standing in finally
handleSubmitResultNoFinally(db, c, image, description, id, lookup, data, write) ==
  LET u == getUser(db, c.session)
      failed(err, res) == SubmitResult(db, err, TRUE, "/create", res, 0)
  IN IF image = NULL
       THEN SubmitResult(db, "Please select an image", c.createLoading,
                         "/create", "invalid", 0)
     ELSE IF u.error # NULL \/ u.user = NULL
       THEN failed("Please sign in to submit your drawing", "invalid")
     ELSE IF lookup # Ok THEN failed(lookup, lookup)
     ELSE IF Len(data) = 0 THEN failed("No active challenge found", "invalid")
     ELSE IF write # Ok THEN failed(write, write)
     ELSE LET out == InsertStmt(db, Policies, Ctx(db, c.session), "submissions",
                                [id |-> id, user_id |-> u.user,
                                 challenge_id |-> data[1].id,
                                 description |-> description,
                                 created_at |-> c.now])
          IN IF out.res # Ok THEN failed(out.res, out.res)
             ELSE SubmitResult(out.db, NULL, FALSE, "/", Ok, 1)

\* handleSubmit runs on the Create screen, at the route /create; without an
\* image it returns before setLoading(true), otherwise finally runs
\* setLoading(false) on every path
handleSubmitResult(db, c, image, description, id, lookup, data, write) ==
  LET u == getUser(db, c.session)
      failed(err, res) == SubmitResult(db, err, FALSE, "/create", res, 0)
  IN IF image = NULL
       THEN SubmitResult(db, "Please select an image", c.createLoading,
                         "/create", "invalid", 0)
     ELSE IF u.error # NULL \/ u.user = NULL
       THEN failed("Please sign in to submit your drawing", "invalid")
     ELSE IF lookup # Ok THEN failed(lookup, lookup)
     ELSE IF Len(data) = 0 THEN failed("No active challenge found", "invalid")
     ELSE IF write # Ok THEN failed(write, write)
     ELSE LET out == InsertStmt(db, Policies, Ctx(db, c.session), "submissions",
                                [id |-> id, user_id |-> u.user,
                                 challenge_id |-> data[1].id,
                                 description |-> description,
                                 created_at |-> c.now])
          IN IF out.res # Ok THEN failed(out.res, out.res)
             ELSE SubmitResult(out.db, NULL, FALSE, "/", Ok, 1)

handleSubmit(V) ==
  /\ HasRoom("submissions", V)
  /\ \E image \in V.images, description \in V.descriptions,
        lookup \in V.replies, write \in V.replies :
       LET today == TodayOf(client.now)
           rows == ChallengesStartingOn(DB, Ctx(DB, client.session), today)
       IN \E data \in (IF lookup = Ok THEN Limit1(rows) ELSE {<<>>}) :
            \E out \in {handleSubmitResult(DB, client, image, description,
                          gen_random_uuid(V.submission_ids, submissions),
                          lookup, data, write)} :
              /\ SetDB(out.db)
              /\ client' = [client EXCEPT !.createError = out.createError,
                                          !.createLoading = out.createLoading,
                                          !.route = out.route]
              /\ last' = ClientDone("handleSubmit", "submissions", out.res,
                                    out.n)
                            @@ [today |-> today, found |-> Len(data),
                                image |-> image]
              /\ UNCHANGED pending

\* Profile screen: fetchProfile
fetchProfile(db, c, reply) ==
  LET u == getUser(db, c.session)
      rows == {q \in SelectStmt(db, Policies, Ctx(db, c.session), "profiles") :
                 q.id = u.user}
  IN IF u.error # NULL THEN [c EXCEPT !.profileError = u.error]
     ELSE IF u.user = NULL THEN c
     ELSE IF reply # Ok THEN [c EXCEPT !.profileError = reply]
     ELSE IF Cardinality(rows) # 1 THEN [c EXCEPT !.profileError = "PGRST116"]
     ELSE [c EXCEPT !.profile = CHOOSE q \in rows : TRUE]

\* challenges ( id, title, description ): the submission's challenge
ChallengeOf(db, ctx, s) ==
  LET cs == {q \in SelectStmt(db, Policies, ctx, "challenges") :
               q.id = s.challenge_id}
  IN IF cs = {} THEN JsonNull ELSE [id |-> (CHOOSE q \in cs : TRUE).id]

\* from('submissions').select(...).eq('user_id', user.id)
\*   .order('created_at', { ascending: false })
MySubmissionsQuery(db, session) ==
  LET ctx == Ctx(db, session)
  IN OrderDescending(
       {[id |-> s.id, user_id |-> s.user_id,
         challenge_id |-> s.challenge_id, description |-> s.description,
         created_at |-> s.created_at,
         challenges |-> ChallengeOf(db, ctx, s)] :
          s \in {t \in SelectStmt(db, Policies, ctx, "submissions") :
                   t.user_id = getUser(db, session).user}},
       "created_at")

\* Profile screen: fetchSubmissions, with the rows the query hands back
ProfileFetchSubmissions(db, c, reply, data) ==
  LET u == getUser(db, c.session)
  IN IF u.error # NULL \/ u.user = NULL THEN c
     ELSE IF reply # Ok
       THEN [c EXCEPT !.profileError = "Failed to load submissions"]
     ELSE [c EXCEPT !.mySubmissions = data]

\* mutant: a count query that failed is reported on the screen
fetchStatsReporting(db, c, replies) ==
  LET u == getUser(db, c.session)
      ctx == Ctx(db, c.session)
      count(tbl) == CountReply(db, ctx, tbl, "user_id", u.user, replies[tbl])
  IN IF u.error # NULL \/ u.user = NULL THEN c
     ELSE IF \E tbl \in DOMAIN replies : replies[tbl] # Ok
       THEN [c EXCEPT !.profileError = "Failed to load stats"]
     ELSE [c EXCEPT !.stats =
             [submissions_count |-> OrZero(count("submissions")),
              likes_received |-> OrZero(count("likes")),
              comments_received |-> OrZero(count("comments"))]]

\* Profile screen: fetchStats
fetchStats(db, c, replies) ==
  LET u == getUser(db, c.session)
      ctx == Ctx(db, c.session)
      count(tbl) == CountReply(db, ctx, tbl, "user_id", u.user, replies[tbl])
  IN IF u.error # NULL \/ u.user = NULL THEN c
     ELSE [c EXCEPT !.stats =
             [submissions_count |-> OrZero(count("submissions")),
              likes_received |-> OrZero(count("likes")),
              comments_received |-> OrZero(count("comments"))]]

StatsTables == {"submissions", "likes", "comments"}

\* Promise.all([fetchProfile(), fetchSubmissions(), fetchStats()]); the two
\* that set the error may finish in either order
loadInitialData(db, c, r1, r2, data, replies, first) ==
  fetchStats(db,
             IF first = "profile"
               THEN ProfileFetchSubmissions(db, fetchProfile(db, c, r1), r2,
                                            data)
               ELSE fetchProfile(db, ProfileFetchSubmissions(db, c, r2, data),
                                 r1),
             replies)

Failed(r1, r2, replies) ==
  {"profiles" : x \in {r1} \ {Ok}} \cup {"mine" : x \in {r2} \ {Ok}}
    \cup {tbl \in StatsTables : replies[tbl] # Ok}

\* Profile screen: the load on mount, onRefresh, and on SIGNED_IN
ProfileRefresh(V) ==
  \E r1 \in V.replies, r2 \in V.replies, replies \in [StatsTables -> V.replies],
     first \in {"profile", "submissions"},
     data \in MySubmissionsQuery(DB, client.session) :
    /\ client' = loadInitialData(DB, client, r1, r2, data, replies, first)
    /\ last' = ClientDone("loadInitialData", "profiles",
                          IF Failed(r1, r2, replies) = {} THEN Ok
                          ELSE NetworkError, 0)
                  @@ [failed |-> Failed(r1, r2, replies)]
    /\ UNCHANGED <<store, pending>>

\* Profile screen: handleSignIn
handleSignIn(V) ==
  \E uid \in RowIds(users), signIn \in {Ok, "Invalid login credentials"},
     r1 \in V.replies, r2 \in V.replies, replies \in [StatsTables -> V.replies],
     first \in {"profile", "submissions"} :
    \E data \in MySubmissionsQuery(DB, uid) :
      /\ client' =
           IF signIn # Ok
             THEN [client EXCEPT !.profileError = signIn]
             ELSE loadInitialData(DB, [client EXCEPT !.profileError = NULL,
                                                     !.session = uid],
                                  r1, r2, data, replies, first)
      /\ last' = [ClientDone("handleSignIn", "users", signIn, 0)
                     EXCEPT !.uid = uid]
                    @@ [failed |-> IF signIn = Ok THEN Failed(r1, r2, replies)
                                   ELSE {}]
      /\ UNCHANGED <<store, pending>>

\* Profile screen: handleSignOut
handleSignOut(V) ==
  /\ client.session # NULL
  /\ \E reply \in V.replies :
       /\ client' =
            IF reply # Ok THEN [client EXCEPT !.profileError = reply]
            ELSE [client EXCEPT !.session = NULL, !.profile = JsonNull,
                                !.mySubmissions = <<>>, !.stats = JsonNull]
       /\ last' = ClientDone("handleSignOut", "users", reply, 0)
       /\ UNCHANGED <<store, pending>>

(***************************************************************************)
(* Specifications.  Each starts from the empty store and differs in the    *)
(* tables its requests address and the values they are drawn from.         *)
(***************************************************************************)
AnyCaller(V) == [V EXCEPT !.callers = "any"]

AnonCaller(V) == [V EXCEPT !.callers = "anon"]

BothEmails(V) == [V EXCEPT !.emails = Emails]

\* registration and the profiles table
NextAuth ==
  \/ Register(Wide)
  \/ RemoveActor
  \/ ClientInsert({"profiles"}, Wide)
  \/ ClientUpdate({"profiles"}, Wide)
  \/ ClientDelete({"profiles"}, Wide)

SpecAuth == Init /\ [][NextAuth]_vars

\* the challenges table, administrators and others
ChallengeV ==
  [AnyCaller(BothEmails(Narrow)) EXCEPT !.dates = Dates,
                                        !.challenge_ids = {"c1", "c2"}]

NextChallenges ==
  \/ Register(ChallengeV)
  \/ ClientInsert({"challenges"}, ChallengeV)
  \/ ClientUpdate({"challenges"}, ChallengeV)
  \/ ClientDelete({"challenges"}, ChallengeV)

SpecChallenges == Init /\ [][NextChallenges]_vars

\* the submissions table
SubmissionV ==
  [AnyCaller(Narrow) EXCEPT !.descriptions = Descriptions,
                            !.submission_ids = {"s1", "s2"}]

NextSubmissions ==
  \/ Register(SubmissionV)
  \/ ClientInsert({"challenges", "submissions"}, SubmissionV)
  \/ ClientUpdate({"submissions"}, SubmissionV)
  \/ ClientDelete({"submissions"}, SubmissionV)

SpecSubmissions == Init /\ [][NextSubmissions]_vars

\* likes, one request at a time
LikeV == [Narrow EXCEPT !.submission_ids = {"s1", "s2"}]

NextLikes ==
  \/ Register(LikeV)
  \/ ClientInsert({"challenges", "submissions"}, LikeV)
  \/ ClientInsert({"likes"}, AnyCaller(LikeV))
  \/ ClientDelete({"likes"}, AnyCaller(LikeV))

SpecLikes == Init /\ [][NextLikes]_vars

\* likes and follows, with inserts in flight at the same time
NextConcurrent ==
  \/ Register(Narrow)
  \/ ClientInsert({"challenges", "submissions"}, Narrow)
  \/ Issue({"likes", "follows"}, Narrow)
  \/ Execute(Narrow)

SpecConcurrent == Init /\ [][NextConcurrent]_vars

\* every table, with the deletes that cascade
NextCascade ==
  \/ Register(Narrow)
  \/ RemoveActor
  \/ ClientInsert(ClientTables, Narrow)
  \/ ClientDelete(ClientTables, Narrow)

SpecCascade == Init /\ [][NextCascade]_vars

\* every table, with the writes of unauthenticated callers
NextAnon ==
  \/ Register(Narrow)
  \/ ClientInsert(ClientTables, Narrow)
  \/ ClientInsert(ClientTables, AnonCaller(Narrow))
  \/ ClientUpdate(ClientTables, AnonCaller(Narrow))
  \/ ClientDelete(ClientTables, AnonCaller(Narrow))

SpecAnon == Init /\ [][NextAnon]_vars

\* likes, comments and follows, with the writes of every caller
SocialTables == {"likes", "comments", "follows"}

NextSocial ==
  \/ Register(Narrow)
  \/ ClientInsert({"challenges", "submissions"}, Narrow)
  \/ ClientInsert(SocialTables, AnyCaller(Narrow))
  \/ ClientUpdate(SocialTables, AnyCaller(Narrow))
  \/ ClientDelete(SocialTables, AnyCaller(Narrow))

SpecSocial == Init /\ [][NextSocial]_vars

\* the Today and Create screens' lookup of today's challenge, at several
\* times of day on devices in several zones
\* <<hour, offset>>: 01:00 UTC in a zone five hours behind, 23:00 UTC in a
\* zone nine hours ahead, noon UTC of the next day in the UTC zone
Clocks == {<<25, -5>>, <<47, 9>>, <<60, 0>>}

OneName == [Narrow EXCEPT !.metas = [username : {"alice"},
                                     display_name : {"Alice"}]]

TodayV ==
  [Narrow EXCEPT !.dates = Dates, !.challenge_ids = {"c1", "c2"},
                 !.replies = {Ok, NetworkError}, !.images = {NULL, "img"}]

InitToday == InitStore /\ \E c \in Clocks : client = Device(c[1], c[2])

NextToday ==
  \/ Register(OneName)
  \/ handleSignIn(Narrow)
  \/ ClientInsert({"challenges"}, TodayV)
  \/ fetchTodayChallenge(TodayV)
  \/ handleSubmit(TodayV)

SpecToday == InitToday /\ [][NextToday]_vars

\* the Today screen's list of submissions, as likes and comments come in
FeedV == [Narrow EXCEPT !.submission_ids = {"s1", "s2"}]

NextFeed ==
  \/ Register(OneName)
  \/ handleSignIn(Narrow)
  \/ ClientInsert({"challenges", "submissions", "likes", "comments"}, FeedV)
  \/ fetchTodayChallenge(FeedV)
  \/ TodayFetchSubmissions(FeedV)

SpecFeed == Init /\ [][NextFeed]_vars

\* the Profile and Create screens, with requests that fail
StatsV == [Narrow EXCEPT !.replies = {Ok, NetworkError}]

NextStats ==
  \/ Register(OneName)
  \/ ClientInsert({"challenges", "likes"}, Narrow)
  \/ handleSignIn(StatsV)
  \/ handleSignOut(StatsV)
  \/ ProfileRefresh(StatsV)
  \/ handleSubmit(StatsV)

SpecStats == Init /\ [][NextStats]_vars

\* likes are updated by any caller, with two submissions to move them between
NextLikeUpdates ==
  \/ Register(LikeV)
  \/ ClientInsert({"challenges", "submissions"}, LikeV)
  \/ ClientInsert({"likes"}, LikeV)
  \/ ClientUpdate({"likes"}, AnyCaller(LikeV))

SpecLikeUpdates == Init /\ [][NextLikeUpdates]_vars

\* the tables whose rows have an owner other than an administrator
OwnedTables == {"profiles", "submissions", "likes", "comments", "follows"}

\* updates by any caller; of a profile, only its id is put to the test
OwnershipV == [AnyCaller(Narrow) EXCEPT !.usernames = {}, !.display_names = {}]

NextOwnership ==
  \/ Register(Narrow)
  \/ ClientInsert(ClientTables, Narrow)
  \/ ClientUpdate(OwnedTables, OwnershipV)

SpecOwnership == Init /\ [][NextOwnership]_vars

\* two actors like and comment on each other's submissions, and the Profile
\* screen loads its statistics; every request is answered
ReceivedTables == {"challenges", "submissions", "likes", "comments"}

NextReceived ==
  \/ Register(Narrow)
  \/ ClientInsert(ReceivedTables, Narrow)
  \/ handleSignIn(Narrow)
  \/ ProfileRefresh(Narrow)

SpecReceived == Init /\ [][NextReceived]_vars

\* the Today screen over two days: challenges, submissions and likes come
\* in, the day passes, and the user pulls to refresh
RefreshV ==
  [Narrow EXCEPT !.dates = Dates, !.challenge_ids = {"c1", "c2"},
                 !.replies = {Ok, NetworkError}]

NextRefresh ==
  \/ Register(OneName)
  \/ ClientInsert({"challenges", "submissions", "likes"}, RefreshV)
  \/ Tick(RefreshV)
  \/ fetchTodayChallenge(RefreshV)
  \/ TodayOnRefresh(RefreshV)
  \/ TodayChallengeDone(RefreshV)
  \/ TodayFetchSubmissions(RefreshV)

SpecRefresh == Init /\ [][NextRefresh]_vars

\* the Explore screen: two challenges with a submission each, presses on the
\* challenge cards and pulls to refresh, with requests that fail
ExploreV ==
  [Narrow EXCEPT !.challenge_ids = {"c1", "c2"},
                 !.submission_ids = {"s1", "s2"},
                 !.replies = {Ok, NetworkError}]

NextExplore ==
  \/ Register(OneName)
  \/ ClientInsert({"challenges", "submissions"}, ExploreV)
  \/ ExploreLoadInitialData(ExploreV)
  \/ ExploreOnPress(ExploreV)
  \/ ExploreOnRefresh(ExploreV)
  \/ ExploreFetchChallenges(ExploreV)
  \/ ExploreFetchSubmissions(ExploreV)

SpecExplore == Init /\ [][NextExplore]_vars

\* the listings of the Today, Explore and Profile screens, with submissions
\* made on different days and challenges that start on different days
ListingV ==
  [Narrow EXCEPT !.dates = Dates, !.challenge_ids = {"c1", "c2"},
                 !.submission_ids = {"s1", "s2"}]

\* the store after an administrator has registered and opened a challenge
\* for each of two days
ListingStore ==
  LET empty == [t \in Tables |-> EmptyBag]
      d1 == signUp(empty, "u1", "admin@x",
                   [username |-> "alice", display_name |-> "Alice"]).db
      d2 == InsertStmt(d1, Policies, Ctx(d1, "u1"), "challenges",
                       [id |-> "c1", start_date |-> "d1",
                        end_date |-> "d1"]).db
  IN InsertStmt(d2, Policies, Ctx(d2, "u1"), "challenges",
                [id |-> "c2", start_date |-> "d2", end_date |-> "d2"]).db

InitListing ==
  /\ users = ListingStore.users
  /\ profiles = ListingStore.profiles
  /\ challenges = ListingStore.challenges
  /\ submissions = ListingStore.submissions
  /\ likes = ListingStore.likes
  /\ comments = ListingStore.comments
  /\ follows = ListingStore.follows
  /\ pending = <<>>
  /\ last = [op |-> "none", tbl |-> "none", uid |-> NULL, own |-> FALSE,
             res |-> Ok, n |-> 0, gone |-> {}]
  /\ client = Device(36, 0)

NextListing ==
  \/ ClientInsert({"submissions", "likes"}, ListingV)
  \/ Tick(ListingV)
  \/ handleSignIn(ListingV)
  \/ fetchTodayChallenge(ListingV)
  \/ TodayFetchSubmissions(ListingV)
  \/ ExploreLoadInitialData(ListingV)
  \/ ExploreFetchSubmissions(ListingV)

SpecListing == InitListing /\ [][NextListing]_vars

(***************************************************************************)
(* Properties.                                                             *)
(***************************************************************************)
\* the failure kinds of the interface, by SQLSTATE
ErrorKind(code) ==
  CASE code = InsufficientPrivilege -> "AuthorizationDenied"
    [] code \in {UniqueViolation, ForeignKeyViolation} -> "ConstraintViolation"
    [] code = NotNullViolation -> "ValidationFailure"
    [] OTHER -> "none"

Writes == {"INSERT", "UPDATE", "DELETE"}

Registered(uid) == uid \in RowIds(users)

Request(uid) == Ctx(DB, uid)

\* C1: with both migrations applied, an actor can delete a submission, and
\* can update it, exactly when its user_id is the actor's identity; no UPDATE
\* or DELETE on submissions has affected a row its caller does not own.
C1_OwnerUpdatesDeletes ==
  /\ \A uid \in Callers, s \in Rows(submissions) :
       /\ DeleteStmt(DB, Policies, Request(uid), "submissions", s).n = 1
            <=> SqlEq(uid, s.user_id)
       /\ (\E patch \in Patches("submissions", SubmissionV) :
             UpdateStmt(DB, Policies, Request(uid), "submissions", s, patch).n = 1)
            <=> SqlEq(uid, s.user_id)
       /\ \A patch \in Patches("submissions", SubmissionV) :
            patch.col = "description" =>
              (UpdateStmt(DB, Policies, Request(uid), "submissions", s, patch).n = 1
                 <=> SqlEq(uid, s.user_id))
  /\ (last.tbl = "submissions" /\ last.op \in {"UPDATE", "DELETE"})
       => (last.n = 1 <=> (last.own /\ last.res = Ok))

\* a registered actor asked to delete another actor's submission, and the
\* submission is still there
C1_Witness ==
  /\ last.tbl = "submissions" /\ last.op = "DELETE"
  /\ last.uid # NULL /\ ~last.own /\ last.n = 0
  /\ \E s \in Rows(submissions) : s.user_id # last.uid

\* C2: no (user_id, submission_id) pair has two likes; an INSERT of a like
\* whose pair exists fails and leaves the store as it was, with
\* ConstraintViolation when it comes from the pair's user.
C2_OneLikePerPair ==
  /\ \A l \in Rows(likes) :
       Cardinality({m \in Rows(likes) : m.user_id = l.user_id
                                        /\ m.submission_id = l.submission_id}) = 1
  /\ \A l \in Rows(likes) : CopiesIn(l, likes) = 1
  /\ \A l \in Rows(likes), uid \in Callers :
       \E out \in {InsertStmt(DB, Policies, Request(uid), "likes", l)} :
         /\ out.res # Ok /\ out.n = 0
         /\ out.db = DB
         /\ uid = l.user_id => /\ out.res = UniqueViolation
                               /\ ErrorKind(out.res) = "ConstraintViolation"
  /\ (last.tbl = "likes" /\ last.op = "INSERT" /\ last.res = Ok)
       => \E l \in Rows(likes) : l.user_id = last.uid

\* the insert of a like whose pair exists was rejected as a unique violation
C2_Witness ==
  /\ last.tbl = "likes" /\ last.op = "INSERT"
  /\ last.res = UniqueViolation /\ last.own
  /\ \E l \in Rows(likes) : l.user_id = last.uid

\* the requests, in flight or run, that ask for the same row as request i
SameRow(i) ==
  {j \in DOMAIN pending : /\ pending[j].tbl = pending[i].tbl
                          /\ pending[j].row = pending[i].row}

ReferencesTo(id) ==
  {r \in Rows(profiles) : r.id = id}
    \cup {r \in Rows(submissions) : r.user_id = id}
    \cup {r \in Rows(likes) : r.user_id = id}
    \cup {r \in Rows(comments) : r.user_id = id}
    \cup {r \in Rows(follows) : r.follower_id = id \/ r.following_id = id}

\* the likes and comments whose submission is not in the store
Orphans ==
  {r \in Rows(likes) \cup Rows(comments) :
     r.submission_id \notin RowIds(submissions)}

\* C4: once an actor is deleted, no profile, submission, like, comment or
\* follow references it, and no like or comment is left on a submission it
\* owned (such a submission is gone, so the row would have no submission).
C4_ProfileCascade ==
  last.op = "deleteUser"
    => /\ ~Registered(last.uid)
       /\ ReferencesTo(last.uid) = {}
       /\ Orphans = {}

\* an actor was deleted whose deletion removed rows of every dependent
\* table, and another actor is still registered
C4_Witness ==
  /\ last.op = "deleteUser"
  /\ last.gone = {"users", "profiles", "submissions", "likes", "comments",
                  "follows"}
  /\ users # EmptyBag

\* C5: in every state each submission references an existing profile and an
\* existing challenge, and each like and comment an existing profile and an
\* existing submission: a deleted submission takes its likes and comments
\* with it, a deleted challenge its submissions and theirs.
C5_ReferencesExist ==
  /\ \A r \in Rows(submissions) :
       r.user_id \in RowIds(profiles) /\ r.challenge_id \in RowIds(challenges)
  /\ \A r \in Rows(likes) \cup Rows(comments) :
       r.user_id \in RowIds(profiles) /\ r.submission_id \in RowIds(submissions)

\* a challenge was deleted and its submission, with a like and a comment on
\* it, went with it
C5_Witness ==
  /\ last.op = "DELETE" /\ last.tbl = "challenges"
  /\ last.gone = {"challenges", "submissions", "likes", "comments"}

\* the row of auth.users with an id
UserRow(id) == CHOOSE u \in Rows(users) : u.id = id

\* the number of profile rows with an id
ProfileCount(id) ==
  BagCardinality([p \in {q \in Rows(profiles) : q.id = id} |-> profiles[p]])

\* C6: a registration that succeeds with metadata {username: u,
\* display_name: d} leaves exactly one profile whose id is the new actor's,
\* with username u and display_name d.
C6_RegistrationCreatesProfile ==
  (last.op = "signUp" /\ last.res = Ok)
    => /\ Registered(last.uid)
       /\ ProfileCount(last.uid) = 1
       /\ \A p \in Rows(profiles) :
            p.id = last.uid =>
              /\ p.username = JsonGet(UserRow(last.uid).raw_user_meta_data,
                                      "username")
              /\ p.display_name = JsonGet(UserRow(last.uid).raw_user_meta_data,
                                          "display_name")

\* an actor has just registered as alice / Alice
C6_Witness ==
  /\ last.op = "signUp" /\ last.res = Ok
  /\ [id |-> last.uid, username |-> "alice", display_name |-> "Alice"]
       \in Rows(profiles)

\* C7: every registered actor has exactly one profile and every profile a
\* registered actor; a registration whose metadata has no username, or a
\* username some profile has, fails and leaves the store as it was.
C7_RegistrationAtomic ==
  /\ \A id \in Actors : ProfileCount(id) = IF Registered(id) THEN 1 ELSE 0
  /\ \A id \in Actors \ RowIds(users), email \in Emails, data \in Wide.metas :
       \E out \in {signUp(DB, id, email, data)} :
         /\ out.res # Ok => out.db = DB
         /\ "username" \notin DOMAIN data => out.res = NotNullViolation
         /\ (/\ "username" \in DOMAIN data
             /\ \E p \in Rows(profiles) : p.username = data.username)
              => out.res = UniqueViolation
  /\ (last.op = "signUp" /\ last.res # Ok) => ~Registered(last.uid)

\* a registration has just failed because its username is taken
C7_Witness ==
  /\ last.op = "signUp" /\ last.res = UniqueViolation
  /\ ~Registered(last.uid) /\ ProfileCount(last.uid) = 0
  /\ profiles # EmptyBag

\* C8: no INSERT on profiles that a client sends, as any registered actor,
\* as an actor since deleted or anonymously, adds a profile row.
C8_NoClientProfileInsert ==
  /\ \A uid \in Actors \cup {NULL}, row \in Candidates("profiles", Wide) :
       \E out \in {InsertStmt(DB, Policies, Request(uid), "profiles", row)} :
         out.res # Ok /\ out.n = 0 /\ out.db = DB
  /\ (last.op = "INSERT" /\ last.tbl = "profiles")
       => last.n = 0 /\ last.res # Ok

\* a registered actor sent an INSERT of a profile with its own id, which the
\* policy lets through, and the primary key rejected it
C8_Witness ==
  /\ last.op = "INSERT" /\ last.tbl = "profiles" /\ last.own
  /\ last.res = UniqueViolation /\ last.n = 0

\* the statements an unauthenticated caller can send to a table
AnonInserts(tbl) ==
  IF HasRoom(tbl, Narrow)
    THEN {InsertStmt(DB, Policies, Anon, tbl, row) :
            row \in Candidates(tbl, Narrow)}
    ELSE {}

AnonUpdates(tbl) ==
  {UpdateStmt(DB, Policies, Anon, tbl, x[1], x[2]) :
     x \in Rows(DB[tbl]) \X Patches(tbl, Narrow)}

AnonDeletes(tbl) ==
  {DeleteStmt(DB, Policies, Anon, tbl, target) : target \in Rows(DB[tbl])}

\* C9: an unauthenticated caller sees every row of every table, and no
\* INSERT, UPDATE or DELETE it sends changes the store.
C9_AnonymousReadOnly ==
  /\ \A tbl \in ClientTables :
       /\ SelectStmt(DB, Policies, Anon, tbl) = Rows(DB[tbl])
       /\ \A out \in AnonInserts(tbl) \cup AnonUpdates(tbl) \cup AnonDeletes(tbl) :
            out.db = DB /\ out.n = 0
       /\ \A out \in AnonInserts(tbl) : out.res = InsufficientPrivilege
  /\ (last.op \in Writes /\ last.uid = NULL)
       => last.n = 0 /\ last.gone = {}

\* an unauthenticated caller asked to delete a follow while every table
\* held a row, and every table still does
C9_Witness ==
  /\ last.op = "DELETE" /\ last.tbl = "follows" /\ last.uid = NULL
  /\ \A tbl \in ClientTables : DB[tbl] # EmptyBag

\* the addresses the allowlist setting names
Allowlist ==
  {AdminEmailsSetting[i] : i \in DOMAIN AdminEmailsSetting} \ {","}

\* the registered actors whose address is on the administrator allowlist
Admin(uid) == Registered(uid) /\ UserRow(uid).email \in Allowlist

ChallengeInserts(uid) ==
  IF HasRoom("challenges", ChallengeV)
    THEN {InsertStmt(DB, Policies, Request(uid), "challenges", row) :
            row \in Candidates("challenges", ChallengeV)}
    ELSE {}

ChallengeUpdates(uid) ==
  {UpdateStmt(DB, Policies, Request(uid), "challenges", x[1], x[2]) :
     x \in Rows(challenges) \X Patches("challenges", ChallengeV)}

ChallengeDeletes(uid) ==
  {DeleteStmt(DB, Policies, Request(uid), "challenges", target) :
     target \in Rows(challenges)}

\* C10 as stated: every INSERT, UPDATE or DELETE on challenges by an
\* authenticated actor off the allowlist is answered AuthorizationDenied.
C10_DeniedOnEveryWrite ==
  (/\ last.tbl = "challenges" /\ last.op \in Writes
   /\ last.uid # NULL /\ ~Admin(last.uid))
    => ErrorKind(last.res) = "AuthorizationDenied"

\* C10, amended: a write on challenges affects a row only when its caller is
\* authenticated and on the allowlist, and then it does; an INSERT by an
\* authenticated caller off the allowlist is answered AuthorizationDenied,
\* its UPDATE or DELETE is answered as affecting no row, and each leaves the
\* store as it was.
C10_AdminOnlyChallenges ==
  /\ \A uid \in Callers :
       /\ \A out \in ChallengeInserts(uid) \cup ChallengeUpdates(uid)
                       \cup ChallengeDeletes(uid) :
            IF uid # NULL /\ Admin(uid)
              THEN out.res = Ok /\ out.n = 1
              ELSE out.n = 0 /\ out.db = DB
       /\ (uid # NULL /\ ~Admin(uid)) =>
            /\ \A out \in ChallengeInserts(uid) :
                 ErrorKind(out.res) = "AuthorizationDenied"
            /\ \A out \in ChallengeUpdates(uid) \cup ChallengeDeletes(uid) :
                 out.res = Ok
  /\ (last.tbl = "challenges" /\ last.op \in Writes /\ last.n > 0)
       => last.uid # NULL /\ Admin(last.uid)
  /\ challenges # EmptyBag => \E uid \in RowIds(users) : Admin(uid)

\* an authenticated caller off the allowlist asked to insert a challenge
\* and was denied, while a challenge an administrator created exists
C10_Witness ==
  /\ last.tbl = "challenges" /\ last.op = "INSERT"
  /\ last.uid # NULL /\ ~Admin(last.uid)
  /\ last.res = InsufficientPrivilege
  /\ challenges # EmptyBag

\* C11: with both migrations applied, an INSERT of a submission succeeds
\* only for an authenticated caller whose identity is the new row's user_id;
\* no submission has been created under another actor's name.
C11_SubmissionInsertOwnOnly ==
  /\ HasRoom("submissions", SubmissionV) =>
       \A uid \in Callers, row \in Candidates("submissions", SubmissionV) :
         \E out \in {InsertStmt(DB, Policies, Request(uid), "submissions", row)} :
           /\ out.res = Ok => (uid # NULL /\ row.user_id = uid)
           /\ (uid = NULL \/ row.user_id # uid)
                => /\ out.res = InsufficientPrivilege
                   /\ out.db = DB
  /\ (last.tbl = "submissions" /\ last.op = "INSERT" /\ last.res = Ok)
       => (last.uid # NULL /\ last.own /\ last.n = 1)

\* an authenticated actor offered a submission under another actor's name
\* for an existing challenge and was refused
C11_Witness ==
  /\ last.tbl = "submissions" /\ last.op = "INSERT"
  /\ last.uid # NULL /\ ~last.own
  /\ last.res = InsufficientPrivilege
  /\ challenges # EmptyBag

\* C12: an INSERT, UPDATE or DELETE on likes or comments takes effect only
\* when the row's user_id, and on follows only when its follower_id, is the
\* caller's identity, for the row as it is and as the statement leaves it.
C12_SocialRowsOwnOnly ==
  /\ \A tbl \in SocialTables, uid \in Callers :
       /\ \A row \in Candidates(tbl, Narrow) :
            \E out \in {InsertStmt(DB, Policies, Request(uid), tbl, row)} :
              /\ out.res = Ok => Owns(uid, tbl, row)
              /\ ~Owns(uid, tbl, row) => out.db = DB
       /\ \A target \in Rows(DB[tbl]) :
            /\ \A patch \in Patches(tbl, Narrow) :
                 \E out \in {UpdateStmt(DB, Policies, Request(uid), tbl,
                                        target, patch)} :
                   /\ out.n = 1 => /\ Owns(uid, tbl, target)
                                    /\ Owns(uid, tbl, ApplyPatch(target, patch))
                   /\ ~Owns(uid, tbl, target) => out.db = DB
            /\ \E out \in {DeleteStmt(DB, Policies, Request(uid), tbl, target)} :
                 /\ out.n = 1 <=> Owns(uid, tbl, target)
                 /\ ~Owns(uid, tbl, target) => out.db = DB
  /\ (last.op \in Writes /\ last.tbl \in SocialTables /\ last.n = 1)
       => last.own

\* an authenticated actor asked to change a follow of another actor, and
\* nothing was changed
C12_Witness ==
  /\ last.op = "UPDATE" /\ last.tbl = "follows"
  /\ last.uid # NULL /\ ~last.own /\ last.n = 0 /\ last.res = Ok
  /\ \E f \in Rows(follows) : f.follower_id # last.uid

\* C13: an UPDATE changes a profile only when the caller's identity is the
\* profile's id, and the owner can change it; no DELETE a client sends
\* removes a profile, so a profile goes only when its actor is deleted.
C13_ProfileOwnerOnly ==
  /\ \A uid \in Actors \cup {NULL}, p \in Rows(profiles) :
       /\ \A patch \in Patches("profiles", Wide) :
            \E out \in {UpdateStmt(DB, Policies, Request(uid), "profiles",
                                   p, patch)} :
              /\ out.n = 1 => uid = p.id
              /\ uid # p.id => out.db = DB
              /\ (uid = p.id /\ patch.col = "display_name") => out.n = 1
       /\ \E out \in {DeleteStmt(DB, Policies, Request(uid), "profiles", p)} :
            out.n = 0 /\ out.db = DB
  /\ (last.op = "UPDATE" /\ last.tbl = "profiles" /\ last.n = 1) => last.own
  /\ (last.op = "DELETE" /\ last.tbl = "profiles") => last.n = 0
  /\ "profiles" \in last.gone => last.op = "deleteUser"

\* an actor asked to delete its own profile, and the profile is still there
C13_Witness ==
  /\ last.op = "DELETE" /\ last.tbl = "profiles" /\ last.own
  /\ last.n = 0 /\ ProfileCount(last.uid) = 1

\* what the caller of a statement observes
Observed(out) == [res |-> out.res, n |-> out.n]

\* the store with the table lacking the row
Without(tbl, row) == [DB EXCEPT ![tbl] = RemoveRows(@, {row})]

\* the row is there and the policies keep the command from it
Hidden(uid, tbl, cmd, row) ==
  BagIn(row, DB[tbl]) /\ ~UsingOk(Policies, Request(uid), tbl, cmd, row)

\* C14: a write that a policy rejects changes no table; an UPDATE or DELETE
\* aimed at a row the caller is not permitted to touch is answered exactly
\* as it is when the row does not exist.
C14_DeniedWritesDiscloseNothing ==
  /\ \A tbl \in ClientTables, uid \in Callers :
       /\ HasRoom(tbl, Narrow) =>
            \A row \in Candidates(tbl, Narrow) :
              \E out \in {InsertStmt(DB, Policies, Request(uid), tbl, row)} :
                out.res = InsufficientPrivilege => out.db = DB /\ out.n = 0
       /\ \A target \in Rows(DB[tbl]) :
            /\ \A patch \in Patches(tbl, Narrow) :
                 \E out \in {UpdateStmt(DB, Policies, Request(uid), tbl,
                                        target, patch)} :
                   /\ out.res = InsufficientPrivilege => out.db = DB
                   /\ Hidden(uid, tbl, "UPDATE", target) =>
                        /\ out.db = DB
                        /\ Observed(out) =
                             Observed(UpdateStmt(Without(tbl, target), Policies,
                                                 Request(uid), tbl, target,
                                                 patch))
            /\ \E out \in {DeleteStmt(DB, Policies, Request(uid), tbl, target)} :
                 Hidden(uid, tbl, "DELETE", target) =>
                   /\ out.db = DB
                   /\ Observed(out) =
                        Observed(DeleteStmt(Without(tbl, target), Policies,
                                            Request(uid), tbl, target))
  /\ (last.op \in Writes /\ last.res = InsufficientPrivilege)
       => last.n = 0 /\ last.gone = {}

\* an unauthenticated caller asked to delete a submission that exists, and
\* was answered as for a row that does not exist
C14_Witness ==
  /\ last.op = "DELETE" /\ last.tbl = "submissions" /\ last.uid = NULL
  /\ last.res = Ok /\ last.n = 0
  /\ submissions # EmptyBag

\* the challenges whose start_date is the date a lookup asked for
StartingOn(today) == {c \in Rows(challenges) : c.start_date = today[1]}

\* C15: the lookup of today's challenge, on the Today screen and in the
\* Create screen's submit, yields one challenge whose start_date is the date
\* asked for when there is any, and none otherwise, whatever other
\* challenges' date ranges hold.
C15_LookupByStartDate ==
  /\ (last.op = "fetchTodayChallenge" /\ last.res = Ok)
       => /\ client.challenge = JsonNull <=> StartingOn(last.today) = {}
          /\ client.challenge # JsonNull
               => client.challenge \in StartingOn(last.today)
          /\ last.n = IF StartingOn(last.today) = {} THEN 0 ELSE 1
  /\ last.op = "handleSubmit"
       => /\ last.found = 1 => StartingOn(last.today) # {}
          /\ client.createError = "No active challenge found"
               => StartingOn(last.today) = {}
          /\ last.res = Ok
               => \E sub \in Rows(submissions), c \in StartingOn(last.today) :
                    sub.user_id = client.session /\ sub.challenge_id = c.id

\* the Today screen looked for a challenge on the second day of one that
\* started the day before, and found none
C15_Witness ==
  /\ last.op = "fetchTodayChallenge" /\ last.res = Ok
  /\ last.today = <<"d2">>
  /\ client.challenge = JsonNull
  /\ \E c \in Rows(challenges) : c.start_date = "d1" /\ c.end_date = "d2"

\* the calendar date on the device's clock, in its own zone
LocalDate(now, tz) == Calendar[((now + tz) \div 24) + 1]

\* the lookups of today's challenge that were sent
LookedUp ==
  \/ last.op = "fetchTodayChallenge"
  \/ /\ last.op = "handleSubmit"
     /\ client.createError \notin {"Please select an image",
                                   "Please sign in to submit your drawing"}

\* C16: the date a lookup of today's challenge compares with start_date is
\* the calendar date in the device's zone, at every time of day and offset.
C16_ComparesLocalDate ==
  LookedUp => last.today = <<LocalDate(client.now, client.tz)>>

\* the Today screen has just loaded its submissions
Listed == last.op = "fetchSubmissions" /\ last.res = Ok

\* the number of rows of a table that reference a submission
RowsOn(tbl, id) ==
  BagCardinality([r \in {x \in Rows(DB[tbl]) : x.submission_id = id}
                    |-> DB[tbl][r]])

\* C17: every submission the Today screen loads carries as like_count the
\* number of likes, and as comment_count the number of comments, that
\* reference it in the store.
C17_CountsAreNumbers ==
  Listed => \A r \in Range(client.submissions) :
              /\ r.like_count = JsonNumber(RowsOn("likes", r.id))
              /\ r.comment_count = JsonNumber(RowsOn("comments", r.id))

\* C18: for every submission the Today screen loads, has_liked is true
\* exactly when the store holds a like of the signed-in actor on it, and
\* false for a reader who is not signed in.
C18_HasLikedIsOwnLike ==
  Listed => \A r \in Range(client.submissions) :
              Truthy(r.has_liked)
                <=> \E l \in Rows(likes) : /\ l.user_id = client.session
                                           /\ l.submission_id = r.id

\* C19: the submissions the Today screen loads are exactly those of its
\* challenge that have at least one like; none comes with has_liked false.
C19_UnlikedSubmissionsAbsent ==
  Listed =>
    /\ {r.id : r \in Range(client.submissions)}
         = {sub.id : sub \in {x \in Rows(submissions) :
                                /\ x.challenge_id = client.challenge.id
                                /\ RowsOn("likes", x.id) > 0}}
    /\ \A r \in Range(client.submissions) : Truthy(r.has_liked)

\* the challenge has a submission with a like and one without, and the
\* screen lists only the first
C19_Witness ==
  /\ Listed
  /\ client.submissions # <<>>
  /\ \E sub \in Rows(submissions) :
       /\ sub.challenge_id = client.challenge.id
       /\ RowsOn("likes", sub.id) = 0
       /\ sub.id \notin {r.id : r \in Range(client.submissions)}

\* the Profile screen has just loaded its data for a signed-in actor
StatsLoaded ==
  /\ last.op \in {"loadInitialData", "handleSignIn"}
  /\ Registered(client.session)
  /\ last.op = "handleSignIn" => last.res = Ok

\* C20: a failure reaches the screen as a failure: when a count query of the
\* profile statistics fails the screen shows an error, not a count of 0, and
\* a submit whose write fails shows the error and is not sent again.
C20_FailuresSurface ==
  /\ (StatsLoaded /\ last.failed \cap StatsTables # {})
       => client.profileError # NULL
  /\ (last.op = "handleSubmit" /\ last.res # Ok)
       => client.createError # NULL /\ last.n = 0

\* C21: registering an actor with an empty username fails with
\* ValidationFailure and creates neither an actor nor a profile: no actor
\* was registered with an empty username, and no profile has one.
C21_EmptyUsernameRejected ==
  /\ \A p \in Rows(profiles) : p.username # ""
  /\ \A u \in Rows(users) : JsonGet(u.raw_user_meta_data, "username") # ""
  /\ (last.op = "signUp" /\ last.res = Ok)
       => JsonGet(UserRow(last.uid).raw_user_meta_data, "username") # ""

\* an UPDATE on likes has just changed the table
LikeUpdated ==
  /\ last'.op = "UPDATE"
  /\ last'.tbl = "likes"
  /\ likes' # likes

\* C22 as stated: a Like has only create and delete: no UPDATE by any
\* actor, the owner included, changes an existing Like.
C22_LikesNeverUpdated == [][~LikeUpdated]_vars

\* C22: an UPDATE changes a Like only when the Like's owner issues it, and
\* then it moves that one Like to another submission and leaves its user_id
\* the owner's; an UPDATE by anyone else changes no Like.
C22_OnlyOwnerMovesLike ==
  [][LikeUpdated =>
       /\ last'.own
       /\ last'.res = Ok
       /\ \E l \in Rows(likes), sid \in RowIds(submissions) :
            /\ l.user_id = last'.uid
            /\ sid # l.submission_id
            /\ likes' = RemoveRows(likes, {l})
                          (+) One([l EXCEPT !.submission_id = sid])]_vars

\* the owner of a like on one of two submissions has updated it
C22_Witness ==
  /\ last.op = "UPDATE"
  /\ last.tbl = "likes"
  /\ last.own
  /\ last.n = 1
  /\ Cardinality(RowIds(submissions)) = 2
  /\ BagCardinality(likes) = 1

\* the rows an INSERT on submissions can carry, a missing user_id included
SubmissionRows ==
  [id : {"s1"}, user_id : Actors \cup {NULL}, challenge_id : {"c1"},
   description : Descriptions, created_at : {client.now}]

PoliciesOn(pols, tbl) == {p \in pols : p.tbl = tbl}

OwnedBy(db, tbl) ==
  [a \in Actors |->
     BagCardinality([r \in {x \in Rows(db[tbl]) : x[OwnerCol(tbl)] = a}
                       |-> CopiesIn(r, db[tbl])])]

\* C26: ownership of a row never changes through client operations: no
\* UPDATE by any actor changes the user_id of a Submission, Comment or Like,
\* the follower_id of a Follow, or the id of a Profile.
C26_OwnershipFixed ==
  [][last'.op = "UPDATE" =>
       \A tbl \in OwnedTables :
         \/ DB'[tbl] = DB[tbl]
         \/ OwnedBy(DB', tbl) = OwnedBy(DB, tbl)]_vars

\* an owner's UPDATE that would hand their row to someone else was refused
C26_Witness ==
  /\ last.op = "UPDATE"
  /\ last.tbl \in OwnedTables
  /\ last.own
  /\ last.res = InsufficientPrivilege
  /\ Cardinality(RowIds(users)) = 2

\* the rows of a table that reference a submission owned by uid
Received(tbl, uid) ==
  LET mine == {sub.id : sub \in {x \in Rows(submissions) : x.user_id = uid}}
      rows == {r \in Rows(DB[tbl]) : r.submission_id \in mine}
  IN BagCardinality([r \in rows |-> DB[tbl][r]])

\* C24: on the Profile screen likes_received is the number of likes that
\* reference submissions owned by the signed-in user, and comments_received
\* the number of comments that do.
C24_StatsCountReceived ==
  (StatsLoaded /\ last.failed = {}) =>
    /\ client.stats.likes_received = Received("likes", client.session)
    /\ client.stats.comments_received = Received("comments", client.session)

\* C27: handleSubmit inserts a submission only when an image is selected, a
\* user is signed in and a challenge starts on the date it asked for; on
\* each of the three failing paths it sets an error message and inserts
\* nothing; it navigates to the home route only after a successful insert;
\* and on every path that passes the image check loading is false when it
\* returns.
C27_SubmitGuards ==
  [][last'.op = "handleSubmit" =>
       LET signedIn == Registered(client.session)
           open == StartingOn(last'.today) # {}
       IN /\ store' # store
               => /\ last'.image # NULL /\ signedIn /\ open
                  /\ last'.res = Ok
          /\ last'.image = NULL
               => /\ client'.createError = "Please select an image"
                  /\ store' = store
          /\ (last'.image # NULL /\ ~signedIn)
               => /\ client'.createError
                       = "Please sign in to submit your drawing"
                  /\ store' = store
          /\ (last'.image # NULL /\ signedIn /\ last'.res # NetworkError /\ ~open)
               => /\ client'.createError = "No active challenge found"
                  /\ store' = store
          /\ client'.route = "/"
               <=> \E sub \in Rows(submissions') \ Rows(submissions) :
                     sub.user_id = client.session
          /\ last'.image # NULL => ~client'.createLoading]_vars

\* a signed-in user with an image submitted on a day without a challenge:
\* the message is set, nothing was inserted and loading is false
C27_Witness ==
  /\ last.op = "handleSubmit"
  /\ last.image # NULL
  /\ Registered(client.session)
  /\ challenges # EmptyBag
  /\ StartingOn(last.today) = {}
  /\ client.createError = "No active challenge found"
  /\ last.n = 0
  /\ ~client.createLoading

\* no request of the Today screen is awaited
TodayIdle == ~client.loading /\ \A r \in client.inflight : r.screen # "today"

\* C28: on the Today screen, whenever no fetch is in flight, the displayed
\* submissions all belong to the displayed challenge, and the list is empty
\* when challenge is null.
C28_ListMatchesChallenge ==
  TodayIdle =>
    /\ client.challenge = JsonNull => client.submissions = <<>>
    /\ \A r \in Range(client.submissions) :
         client.challenge # JsonNull /\ r.challenge_id = client.challenge.id

\* no request of the Explore screen is awaited
ExploreIdle ==
  ~client.exploreLoading /\ \A r \in client.inflight : r.screen # "explore"

\* C29: on the Explore screen, once the fetches started by selecting one
\* challenge and then another have both completed, the submissions
\* displayed are those of the selected challenge, in whichever order the
\* two responses arrived.
C29_ShowsSelected ==
  (ExploreIdle /\ client.selectedChallenge # JsonNull) =>
    \A r \in Range(client.exploreSubmissions) :
      r.challenge_id = client.selectedChallenge.id

\* Explore screen, render: the error view stands in place of the list
ExploreView == IF client.exploreError # NULL THEN "error" ELSE "submissions"

\* C30: on the Explore screen no operation resets error to null: once a
\* fetch has failed the error stays set through every later refresh or
\* Retry, and the error view is shown instead of the submissions list.
C30_ErrorNeverCleared ==
  [][client.exploreError # NULL
       => client'.exploreError # NULL /\ ExploreView' = "error"]_vars

\* after a failed fetch a later fetch has loaded submissions, nothing is
\* awaited, and the error is still set
C30_Witness ==
  /\ ExploreIdle
  /\ client.exploreError # NULL
  /\ last.op = "fetchSubmissions"
  /\ last.res = Ok
  /\ client.exploreChallenges # <<>>
  /\ client.exploreSubmissions # <<>>

\* each row's key is at least the key of the row after it
Descending(seq, column) ==
  \A i \in 1..(Len(seq) - 1) :
    SortKey(seq[i], column) >= SortKey(seq[i + 1], column)

\* C23: the submission listings of the Today, Explore and Profile screens
\* are ordered by created_at descending, and the Explore challenge history
\* by start_date descending: of two adjacent rows the earlier has the greater
\* or equal key.
C23_ListingsOrdered ==
  /\ Descending(client.submissions, "created_at")
  /\ Descending(client.exploreSubmissions, "created_at")
  /\ Descending(client.mySubmissions, "created_at")
  /\ Descending(client.exploreChallenges, "start_date")

\* the Today screen lists two submissions made on different days, and the
\* Explore screen two challenges that start on different days
C23_Witness ==
  /\ Len(client.submissions) = 2
  /\ client.submissions[1].created_at # client.submissions[2].created_at
  /\ Len(client.exploreChallenges) = 2
  /\ client.exploreChallenges[1].start_date
       # client.exploreChallenges[2].start_date

====
